---- MODULE Spec2Model ----
\* Verification model of vixcpp/sync: the file-backed outbox store, the Outbox
\* policy layer over it and the SyncWorker tick.
EXTENDS Integers, Sequences, FiniteSets, TLC

\* ---------------------------------------------------------------------------
\* Bounds of the model
\* ---------------------------------------------------------------------------
\* Largest now_ms a caller passes.
MaxTime == 2
\* Largest stored attempt from which a sweep still requeues (uint32 in the code).
MaxAttempt == 2
\* Successful claims counted per op between two releases.
MaxClaims == 2
\* transport.send calls counted per op.
MaxSends == 3

Times == 0..MaxTime
Ids == {"a", "b"}
Owners == {"w1", "w2"}
Errors == {"e"}

Pending == "Pending"
InFlight == "InFlight"
Done == "Done"
Failed == "Failed"
PermanentFailed == "PermanentFailed"
Statuses == {Pending, InFlight, Done, Failed, PermanentFailed}

RequeueError == "requeued after inflight timeout"

\* Outbox::Config::retry of the modelled outbox (a scaled-down RetryPolicy).
retry == [max_attempts |-> 2, base_delay_ms |-> 1, max_delay_ms |-> 2, factor |-> 2]

VARIABLES
    ops,        \* FileOutboxStore::ops_   : id -> Operation
    owner,      \* FileOutboxStore::owner_ : id -> owner string
    last,       \* the last call made: its name, its id argument, the value it returned
    claimed,    \* per id: claims that returned true since the op was last put or released
    sends,      \* per id: transport.send calls made for the op since it was last put
    wk,         \* per worker thread: where its tick stands and the tick's locals
    clock,      \* the latest now_ms any tick was called with
    disk,       \* the outbox file: the JSON document flush_ wrote last
    wal,        \* the WAL file: its bytes
    writer,     \* the long-lived WalWriter: whether it is open, and its put position
    log,        \* the appends made so far: the record and the returned offset
    seen,       \* what the latest read of the file as it is now delivered
    eng         \* the SyncEngine: running_, thread_, its loop and its caller

syncvars == <<ops, owner, last, claimed, sends, wk, clock, disk, eng>>

walvars == <<wal, writer, log, seen>>

vars == <<ops, owner, last, claimed, sends, wk, clock, disk, wal, writer, log, seen, eng>>

\* ---------------------------------------------------------------------------
\* Operation
\* ---------------------------------------------------------------------------
Operation(id, status, attempt, created, updated, next, err, key) ==
    [id |-> id, kind |-> "http.post", target |-> "/api/messages", payload |-> "p",
     idempotency_key |-> key, created_at_ms |-> created, updated_at_ms |-> updated,
     attempt |-> attempt, next_retry_at_ms |-> next, status |-> status,
     last_error |-> err]

DefaultOp(id) == Operation(id, Pending, 0, 0, 0, 0, "", "")

\* The store as a value: the two maps every method reads and writes under mu_.
Store(o, w) == [ops |-> o, owner |-> w]

Erase(w, ids) == [i \in (DOMAIN w) \ ids |-> w[i]]

\* ---------------------------------------------------------------------------
\* RetryPolicy
\* ---------------------------------------------------------------------------
can_retry(p, attempt) == attempt < p.max_attempts

RECURSIVE Pow(_, _)
Pow(f, n) == IF n = 0 THEN 1 ELSE f * Pow(f, n - 1)

Clamp(v, lo, hi) == IF v < lo THEN lo ELSE IF v > hi THEN hi ELSE v

\* compute_delay_ms for the attempts whose product fits the int64 the double
\* is cast to (every attempt a store of this model holds).
compute_delay_ms(p, attempt) ==
    Clamp(p.base_delay_ms * Pow(p.factor, attempt), p.base_delay_ms, p.max_delay_ms)

\* compute_delay_ms for every attempt. The double d after the loop is
\* base_delay_ms * 2^attempt (factor 2: every product is exact until d is
\* inf), kept as mantissa m and exponent e.
Scaled(p, attempt) == [m |-> p.base_delay_ms, e |-> attempt]

RECURSIVE Bits(_)
Bits(n) == IF n = 0 THEN 0 ELSE 1 + Bits(n \div 2)

\* The value bits of std::int64_t.
Int64Bits == 63

\* d < 2^63: m * 2^e has Bits(m) + e bits.
FitsInt64(d) == Bits(d.m) + d.e <= Int64Bits

\* Stands for every int64 above 2^30, and its negative for every int64 below
\* -2^30: clamp sends all of them to the same bound (max_delay_ms < 2^30).
Huge == 1073741824

\* static_cast<std::int64_t>(d). A d that does not fit (inf included) is
\* undefined behaviour: cvttsd2si on x86-64 yields INT64_MIN, a saturating
\* conversion yields INT64_MAX.
ToInt64(d) ==
    IF Bits(d.m) + d.e <= 30 THEN {d.m * Pow(2, d.e)}
    ELSE IF FitsInt64(d) THEN {Huge}
    ELSE {-Huge, Huge}

compute_delay_outcomes(p, attempt) ==
    {Clamp(v, p.base_delay_ms, p.max_delay_ms) : v \in ToInt64(Scaled(p, attempt))}

\* ---------------------------------------------------------------------------
\* FileOutboxStore methods, as functions from a store to the store after the
\* call (st) and the returned value (ret)
\* ---------------------------------------------------------------------------
put_mutKeepsExisting(S, op) ==
    [st |-> Store(S.ops @@ (op.id :> op), S.owner), ret |-> TRUE]

put(S, op) ==
    [st |-> Store((op.id :> op) @@ S.ops, S.owner), ret |-> TRUE]

get(S, id) == IF id \in DOMAIN S.ops THEN <<S.ops[id]>> ELSE <<>>

claim_mutNoInflightCheck(S, id, who, now) ==
    IF id \notin DOMAIN S.ops THEN [st |-> S, ret |-> FALSE]
    ELSE IF S.ops[id].status = Done THEN [st |-> S, ret |-> FALSE]
    ELSE [st |-> Store([S.ops EXCEPT ![id].status = InFlight, ![id].updated_at_ms = now],
                       (id :> who) @@ S.owner),
          ret |-> TRUE]

claim_mutClearsError(S, id, who, now) ==
    IF id \notin DOMAIN S.ops THEN [st |-> S, ret |-> FALSE]
    ELSE IF S.ops[id].status = Done THEN [st |-> S, ret |-> FALSE]
    ELSE IF S.ops[id].status = InFlight THEN [st |-> S, ret |-> FALSE]
    ELSE [st |-> Store([S.ops EXCEPT ![id].status = InFlight, ![id].updated_at_ms = now,
                                     ![id].last_error = ""],
                       (id :> who) @@ S.owner),
          ret |-> TRUE]

claim(S, id, who, now) ==
    IF id \notin DOMAIN S.ops THEN [st |-> S, ret |-> FALSE]
    ELSE IF S.ops[id].status = Done THEN [st |-> S, ret |-> FALSE]
    ELSE IF S.ops[id].status = InFlight THEN [st |-> S, ret |-> FALSE]
    ELSE [st |-> Store([S.ops EXCEPT ![id].status = InFlight, ![id].updated_at_ms = now],
                       (id :> who) @@ S.owner),
          ret |-> TRUE]

mark_done_mutKeepsOwner(S, id, now) ==
    IF id \notin DOMAIN S.ops THEN [st |-> S, ret |-> FALSE]
    ELSE [st |-> Store([S.ops EXCEPT ![id].status = Done, ![id].updated_at_ms = now,
                                     ![id].last_error = ""],
                       S.owner),
          ret |-> TRUE]

mark_done_mutRefusesDone(S, id, now) ==
    IF id \notin DOMAIN S.ops \/ S.ops[id].status = Done THEN [st |-> S, ret |-> FALSE]
    ELSE [st |-> Store([S.ops EXCEPT ![id].status = Done, ![id].updated_at_ms = now,
                                     ![id].last_error = ""],
                       Erase(S.owner, {id})),
          ret |-> TRUE]

mark_done(S, id, now) ==
    IF id \notin DOMAIN S.ops THEN [st |-> S, ret |-> FALSE]
    ELSE [st |-> Store([S.ops EXCEPT ![id].status = Done, ![id].updated_at_ms = now,
                                     ![id].last_error = ""],
                       Erase(S.owner, {id})),
          ret |-> TRUE]

mark_failed_mutClearsKey(S, id, err, now, next) ==
    IF id \notin DOMAIN S.ops THEN [st |-> S, ret |-> FALSE]
    ELSE [st |-> Store([S.ops EXCEPT ![id].status = Failed, ![id].last_error = err,
                                     ![id].updated_at_ms = now,
                                     ![id].next_retry_at_ms = next,
                                     ![id].idempotency_key = ""],
                       Erase(S.owner, {id})),
          ret |-> TRUE]

mark_failed(S, id, err, now, next) ==
    IF id \notin DOMAIN S.ops THEN [st |-> S, ret |-> FALSE]
    ELSE [st |-> Store([S.ops EXCEPT ![id].status = Failed, ![id].last_error = err,
                                     ![id].updated_at_ms = now,
                                     ![id].next_retry_at_ms = next],
                       Erase(S.owner, {id})),
          ret |-> TRUE]

mark_permanent_failed_mutRefusesDone(S, id, err, now) ==
    IF id \notin DOMAIN S.ops \/ S.ops[id].status = Done THEN [st |-> S, ret |-> FALSE]
    ELSE [st |-> Store([S.ops EXCEPT ![id].status = PermanentFailed, ![id].last_error = err,
                                     ![id].updated_at_ms = now,
                                     ![id].next_retry_at_ms = now],
                       Erase(S.owner, {id})),
          ret |-> TRUE]

mark_permanent_failed(S, id, err, now) ==
    IF id \notin DOMAIN S.ops THEN [st |-> S, ret |-> FALSE]
    ELSE [st |-> Store([S.ops EXCEPT ![id].status = PermanentFailed, ![id].last_error = err,
                                     ![id].updated_at_ms = now,
                                     ![id].next_retry_at_ms = now],
                       Erase(S.owner, {id})),
          ret |-> TRUE]

Prunable_mutStrictlyOlder(S, older) ==
    {i \in DOMAIN S.ops : S.ops[i].status = Done /\ S.ops[i].updated_at_ms < older}

Prunable(S, older) ==
    {i \in DOMAIN S.ops : S.ops[i].status = Done /\ S.ops[i].updated_at_ms <= older}

prune_done(S, older) ==
    LET gone == Prunable(S, older)
    IN  [st |-> Store([i \in (DOMAIN S.ops) \ gone |-> S.ops[i]], Erase(S.owner, gone)),
         ret |-> Cardinality(gone)]

Stuck_mutStrictlyOlder(S, now, timeout) ==
    {i \in DOMAIN S.ops : S.ops[i].status = InFlight
                          /\ now - S.ops[i].updated_at_ms > timeout}

Stuck(S, now, timeout) ==
    {i \in DOMAIN S.ops : S.ops[i].status = InFlight
                          /\ ~(now - S.ops[i].updated_at_ms < timeout)}

requeue_mutResetsAttempt(S, now, timeout) ==
    LET stuck == Stuck(S, now, timeout)
    IN  [st |-> Store([i \in DOMAIN S.ops |->
                          IF i \in stuck
                          THEN [S.ops[i] EXCEPT !.status = Failed,
                                                !.attempt = 0,
                                                !.updated_at_ms = now,
                                                !.next_retry_at_ms = now,
                                                !.last_error = RequeueError]
                          ELSE S.ops[i]],
                      Erase(S.owner, stuck)),
         ret |-> Cardinality(stuck)]

requeue_mutKeepsOwner(S, now, timeout) ==
    LET stuck == Stuck(S, now, timeout)
    IN  [st |-> Store([i \in DOMAIN S.ops |->
                          IF i \in stuck
                          THEN [S.ops[i] EXCEPT !.status = Failed,
                                                !.attempt = S.ops[i].attempt + 1,
                                                !.updated_at_ms = now,
                                                !.next_retry_at_ms = now,
                                                !.last_error = RequeueError]
                          ELSE S.ops[i]],
                      S.owner),
         ret |-> Cardinality(stuck)]

requeue_inflight_older_than(S, now, timeout) ==
    LET stuck == Stuck(S, now, timeout)
    IN  [st |-> Store([i \in DOMAIN S.ops |->
                          IF i \in stuck
                          THEN [S.ops[i] EXCEPT !.status = Failed,
                                                !.attempt = S.ops[i].attempt + 1,
                                                !.updated_at_ms = now,
                                                !.next_retry_at_ms = now,
                                                !.last_error = RequeueError]
                          ELSE S.ops[i]],
                      Erase(S.owner, stuck)),
         ret |-> Cardinality(stuck)]

\* ListOptions
ListOptions(limit, now, only_ready, include_inflight) ==
    [limit |-> limit, now_ms |-> now, only_ready |-> only_ready,
     include_inflight |-> include_inflight]

Listed_mutKeepsInFlight(S, opt) ==
    {i \in DOMAIN S.ops :
        /\ ~(opt.only_ready /\ ~(S.ops[i].next_retry_at_ms <= opt.now_ms))
        /\ S.ops[i].status \notin {Done, PermanentFailed}}

Listed_mutKeepsPermanentFailed(S, opt) ==
    {i \in DOMAIN S.ops :
        /\ ~(~opt.include_inflight /\ S.ops[i].status = InFlight)
        /\ ~(opt.only_ready /\ ~(S.ops[i].next_retry_at_ms <= opt.now_ms))
        /\ S.ops[i].status # Done}

Listed(S, opt) ==
    {i \in DOMAIN S.ops :
        /\ ~(~opt.include_inflight /\ S.ops[i].status = InFlight)
        /\ ~(opt.only_ready /\ ~(S.ops[i].next_retry_at_ms <= opt.now_ms))
        /\ S.ops[i].status # Done
        /\ S.ops[i].status # PermanentFailed}

Min(x, y) == IF x < y THEN x ELSE y
Max(x, y) == IF x > y THEN x ELSE y

\* Sequences without repetition, of length n, over the ids in s.
Orders(s, n) ==
    {q \in [1..n -> s] : \A x, y \in 1..n : x # y => q[x] # q[y]}

\* list() walks an unordered_map, so every order of the matching ops is a
\* possible result; the loop stops once out.size() >= limit, after the push.
list(S, opt) ==
    LET match == Listed(S, opt)
        n == Min(Cardinality(match), Max(opt.limit, 1))
    IN  {[k \in 1..n |-> S.ops[q[k]]] : q \in Orders(match, n)}

\* ---------------------------------------------------------------------------
\* Outbox
\* ---------------------------------------------------------------------------
enqueued_mutAlwaysReady(op, now, newId, newKey) ==
    [op EXCEPT !.id = IF op.id = "" THEN newId ELSE op.id,
               !.idempotency_key = IF op.idempotency_key = "" THEN newKey
                                   ELSE op.idempotency_key,
               !.created_at_ms = IF op.created_at_ms = 0 THEN now ELSE op.created_at_ms,
               !.updated_at_ms = now,
               !.next_retry_at_ms = now]

\* enqueue: newId and newKey are what make_id() and make_idempotency_key() return.
enqueued(op, now, newId, newKey) ==
    [op EXCEPT !.id = IF op.id = "" THEN newId ELSE op.id,
               !.idempotency_key = IF op.idempotency_key = "" THEN newKey
                                   ELSE op.idempotency_key,
               !.created_at_ms = IF op.created_at_ms = 0 THEN now ELSE op.created_at_ms,
               !.updated_at_ms = now,
               !.next_retry_at_ms = IF op.next_retry_at_ms = 0 THEN now
                                    ELSE op.next_retry_at_ms]

enqueue(S, op, now, newId, newKey) ==
    LET e == enqueued(op, now, newId, newKey)
    IN  [st |-> put(S, e).st, ret |-> e.id]

peek_ready(S, now, limit) == list(S, ListOptions(limit, now, TRUE, FALSE))

complete(S, id, now) == mark_done(S, id, now)

fail_mark_mutNoBackoff(S, id, err, now, retryable, attempt) ==
    IF ~retryable THEN mark_permanent_failed(S, id, err, now)
    ELSE mark_failed(S, id, err, now, now)

\* The part of fail after its get(), in an outbox whose Config::retry is p:
\* attempt is the fetched attempt plus one, kept in the caller's copy only.
fail_mark_with(p, S, id, err, now, retryable, attempt) ==
    IF ~retryable THEN mark_permanent_failed(S, id, err, now)
    ELSE IF ~can_retry(p, attempt) THEN mark_failed(S, id, err, now, now)
    ELSE mark_failed(S, id, err, now, now + compute_delay_ms(p, attempt))

fail_mark_mutExhaustedIsPermanent(S, id, err, now, retryable, attempt) ==
    IF ~retryable \/ ~can_retry(retry, attempt) THEN mark_permanent_failed(S, id, err, now)
    ELSE mark_failed(S, id, err, now, now + compute_delay_ms(retry, attempt))

fail_mark(S, id, err, now, retryable, attempt) ==
    fail_mark_with(retry, S, id, err, now, retryable, attempt)

\* Outbox::fail in an outbox whose Config::retry is p.
fail_with(p, S, id, err, now, retryable) ==
    LET cur == get(S, id)
    IN  IF cur = <<>> THEN [st |-> S, ret |-> FALSE]
        ELSE fail_mark_with(p, S, id, err, now, retryable, cur[1].attempt + 1)

fail(S, id, err, now, retryable) ==
    LET cur == get(S, id)
    IN  IF cur = <<>> THEN [st |-> S, ret |-> FALSE]
        ELSE fail_mark(S, id, err, now, retryable, cur[1].attempt + 1)

\* ---------------------------------------------------------------------------
\* The store and outbox API, one call at a time
\* ---------------------------------------------------------------------------
\* ---------------------------------------------------------------------------
\* FileOutboxStore persistence: the JSON document and the file
\* ---------------------------------------------------------------------------
\* static_cast<int>(op.status) and back.
StatusCode(status) ==
    CASE status = Pending -> 0
      [] status = InFlight -> 1
      [] status = Done -> 2
      [] status = Failed -> 3
      [] status = PermanentFailed -> 4

StatusOfCode(code) == CHOOSE status \in Statuses : StatusCode(status) = code

op_to_json(op) ==
    [id |-> op.id, kind |-> op.kind, target |-> op.target, payload |-> op.payload,
     idempotency_key |-> op.idempotency_key, created_at_ms |-> op.created_at_ms,
     updated_at_ms |-> op.updated_at_ms, attempt |-> op.attempt,
     next_retry_at_ms |-> op.next_retry_at_ms, status |-> StatusCode(op.status),
     last_error |-> op.last_error]

\* json::value(key, default)
JsonValue(j, key, default) == IF key \in DOMAIN j THEN j[key] ELSE default

op_from_json_mutDropsError(j) ==
    [id |-> JsonValue(j, "id", ""), kind |-> JsonValue(j, "kind", ""),
     target |-> JsonValue(j, "target", ""), payload |-> JsonValue(j, "payload", ""),
     idempotency_key |-> JsonValue(j, "idempotency_key", ""),
     created_at_ms |-> JsonValue(j, "created_at_ms", 0),
     updated_at_ms |-> JsonValue(j, "updated_at_ms", 0),
     attempt |-> JsonValue(j, "attempt", 0),
     next_retry_at_ms |-> JsonValue(j, "next_retry_at_ms", 0),
     status |-> StatusOfCode(JsonValue(j, "status", 0)),
     last_error |-> ""]

op_from_json(j) ==
    [id |-> JsonValue(j, "id", ""), kind |-> JsonValue(j, "kind", ""),
     target |-> JsonValue(j, "target", ""), payload |-> JsonValue(j, "payload", ""),
     idempotency_key |-> JsonValue(j, "idempotency_key", ""),
     created_at_ms |-> JsonValue(j, "created_at_ms", 0),
     updated_at_ms |-> JsonValue(j, "updated_at_ms", 0),
     attempt |-> JsonValue(j, "attempt", 0),
     next_retry_at_ms |-> JsonValue(j, "next_retry_at_ms", 0),
     status |-> StatusOfCode(JsonValue(j, "status", 0)),
     last_error |-> JsonValue(j, "last_error", "")]

\* No file at cfg_.file_path.
NoFile == [exists |-> FALSE, version |-> 0, ops |-> <<>>, owners |-> <<>>]

\* flush_: the whole document, rewritten.
flush_(S) ==
    [exists |-> TRUE, version |-> 1,
     ops |-> [i \in DOMAIN S.ops |-> op_to_json(S.ops[i])],
     owners |-> S.owner]

\* load_if_needed_ of a store opened on the file: ops keyed by their own id.
Loaded(file) ==
    IF ~file.exists THEN Store(<<>>, <<>>)
    ELSE LET read == [k \in DOMAIN file.ops |-> op_from_json(file.ops[k])]
         IN  Store([i \in {read[k].id : k \in DOMAIN read} |->
                        read[CHOOSE k \in DOMAIN read : read[k].id = i]],
                   file.owners)

\* Whether the call reached flush_: put always, prune_done and the sweep when
\* they changed an op, the others when they found (and accepted) the op.
Flushes(name, r) ==
    IF name \in {"put", "enqueue"} THEN TRUE
    ELSE IF name \in {"prune_done", "requeue_inflight_older_than"} THEN r.ret > 0
    ELSE r.ret

\* ---------------------------------------------------------------------------
\* The write-ahead log: the record format, WalWriter, WalReader and Wal.
\* The file is a sequence of bytes; integers are written in the host's byte
\* order (little-endian), signed ones in two's complement.
\* ---------------------------------------------------------------------------
\* The most appends one run makes.
MaxAppends == 3

kMagic == 1447647319

kVersion == 1

RecordType == [PutOperation |-> 1, MarkDone |-> 2, MarkFailed |-> 3]

WalRecord(type, id, payload, error, ts_ms, next_retry_at_ms) ==
    [type |-> type, id |-> id, payload |-> payload, error |-> error,
     ts_ms |-> ts_ms, next_retry_at_ms |-> next_retry_at_ms]

\* The n low bytes of the unsigned v, lowest first. A size_t cast to uint32_t
\* is LE(v, 4): the higher bytes are dropped.
RECURSIVE LE(_, _)
LE(v, n) == IF n = 0 THEN <<>> ELSE <<v % 256>> \o LE(v \div 256, n - 1)

U32LE(v) == LE(v, 4)

\* An int64_t as its eight bytes: a negative v is the complement of -(v + 1).
I64LE(v) ==
    IF v >= 0 THEN LE(v, 8)
    ELSE LET c == LE(-(v + 1), 8) IN [k \in 1..8 |-> 255 - c[k]]

\* The unsigned integer the bytes b hold.
RECURSIVE FromLE(_)
FromLE(b) == IF b = <<>> THEN 0 ELSE b[1] + 256 * FromLE(Tail(b))

I64_mutLowByte(b) == b[1]

\* The int64_t the eight bytes b hold.
I64(b) ==
    IF b[8] >= 128 THEN -(FromLE([k \in 1..8 |-> 255 - b[k]]) + 1)
    ELSE FromLE(b)

\* The bytes one append writes: the header (magic, version, type, reserved,
\* ts_ms, the three lengths, next_retry_at_ms), then id, payload and error,
\* each as many bytes as its length field says.
Encode(r) ==
    LET id_len == FromLE(U32LE(Len(r.id)))
        payload_len == FromLE(U32LE(Len(r.payload)))
        error_len == FromLE(U32LE(Len(r.error)))
    IN  U32LE(kMagic) \o LE(kVersion, 2) \o <<r.type>> \o <<0>>
        \o I64LE(r.ts_ms)
        \o U32LE(id_len) \o U32LE(payload_len) \o U32LE(error_len)
        \o I64LE(r.next_retry_at_ms)
        \o SubSeq(r.id, 1, id_len)
        \o SubSeq(r.payload, 1, payload_len)
        \o SubSeq(r.error, 1, error_len)

\* sizeof of the header fields next() reads.
HeaderSize == 4 + 2 + 1 + 1 + 8 + 4 + 4 + 4 + 8

\* Where a stream opened with ios::app stands before its first write: the
\* build's library (fopen mode "a") puts it at the end of the file.
OpenPos_mutBeginning(bytes) == 0

OpenPos(bytes) == Len(bytes)

Closed == [open |-> FALSE, pos |-> 0]

\* in_.read of n bytes at pos succeeds: a negative seek or a short file sets
\* the stream's fail bit.
Fits(bytes, pos, n) == pos >= 0 /\ pos + n <= Len(bytes)

HeaderMatches_mutVersionIgnored(magic, version) == magic = kMagic

HeaderMatches(magic, version) == magic = kMagic /\ version = kVersion

\* What resize(n) and in_.read leave in a body field: the bytes the file
\* has, zeros where it ends early.
ReadBody(bytes, pos, n) ==
    [k \in 1..n |-> IF pos + k <= Len(bytes) THEN bytes[pos + k] ELSE 0]

BodyFails_mutIgnored(bytes, pos, n) == FALSE

\* The stream failed while the body was read.
BodyFails(bytes, pos, n) == pos + n > Len(bytes)

NoRecord(pos) ==
    [ok |-> FALSE, rec |-> WalRecord(0, <<>>, <<>>, <<>>, 0, 0), end |-> pos]

\* WalReader::next with the stream at start: the record there and the
\* position behind it, or no record.
reader_next(bytes, start) ==
    IF ~Fits(bytes, start, 4) THEN NoRecord(start)
    ELSE IF ~Fits(bytes, start, HeaderSize) THEN NoRecord(start)
    ELSE
        LET h == SubSeq(bytes, start + 1, start + HeaderSize)
            magic == FromLE(SubSeq(h, 1, 4))
            version == FromLE(SubSeq(h, 5, 6))
            type == h[7]
            ts_ms == I64(SubSeq(h, 9, 16))
            id_len == FromLE(SubSeq(h, 17, 20))
            payload_len == FromLE(SubSeq(h, 21, 24))
            error_len == FromLE(SubSeq(h, 25, 28))
            next_retry_at_ms == I64(SubSeq(h, 29, 36))
            body == start + HeaderSize
        IN  IF ~HeaderMatches(magic, version) THEN NoRecord(start)
            ELSE IF BodyFails(bytes, body, id_len + payload_len + error_len)
            THEN NoRecord(start)
            ELSE [ok |-> TRUE,
                  rec |-> WalRecord(type,
                                    ReadBody(bytes, body, id_len),
                                    ReadBody(bytes, body + id_len, payload_len),
                                    ReadBody(bytes, body + id_len + payload_len,
                                             error_len),
                                    ts_ms, next_retry_at_ms),
                  end |-> body + id_len + payload_len + error_len]

\* The loop of Wal::replay: the records delivered to on_record so far and
\* the offset of the latest one.
RECURSIVE replay_loop(_, _, _, _)
replay_loop(bytes, pos, recs, latest) ==
    LET r == reader_next(bytes, pos)
    IN  IF ~r.ok THEN [recs |-> recs, last |-> latest]
        ELSE replay_loop(bytes, r.end, Append(recs, r.rec), pos)

replay(bytes, from_offset) == replay_loop(bytes, from_offset, <<>>, -1)

\* The file after it lost its last b bytes.
Truncated(bytes, b) == SubSeq(bytes, 1, Len(bytes) - b)

\* The file with the magic (its first byte) or the version of the record at
\* begin overwritten by another value.
Damaged(bytes, begin, field) ==
    IF field = "magic" THEN [bytes EXCEPT ![begin + 1] = 0]
    ELSE [bytes EXCEPT ![begin + 5] = kVersion + 1]

NoRead ==
    [call |-> "none", from |-> 0, cut |-> 0, bad |-> 0, field |-> "none",
     recs |-> <<>>, last |-> -1]

\* A SyncEngine as constructed: running_ false, thread_ not joinable, nobody
\* inside start() or stop(). live counts the executions of run_loop_, loops
\* the threads created so far, asked is the latest of start() and stop().
Stopped ==
    [running |-> FALSE, thread |-> "none", pc |-> "while", caller |-> "ready",
     live |-> 0, loops |-> 0, asked |-> "stop"]

Call(name, id, val) == [call |-> name, id |-> id, val |-> val]

Workers == {"t1", "t2"}

SendResult(ok, retryable, error) == [ok |-> ok, retryable |-> retryable, error |-> error]

\* A worker thread outside tick(). wins, lost and calls count the claims
\* that returned true, the claims that returned false and the transport.send
\* calls of the thread's tick, the last one when it is outside.
Idle ==
    [pc |-> "idle", now |-> 0, batch |-> <<>>, k |-> 0, n |-> 0, won |-> FALSE,
     res |-> SendResult(FALSE, TRUE, ""), attempt |-> 0, wins |-> 0, lost |-> 0,
     calls |-> 0]

Init ==
    /\ ops = <<>>
    /\ owner = <<>>
    /\ last = Call("init", "", 0)
    /\ claimed = [i \in Ids |-> 0]
    /\ sends = [i \in Ids |-> 0]
    /\ wk = [w \in Workers |-> Idle]
    /\ clock = 0
    /\ disk = NoFile
    /\ wal = <<>>
    /\ writer = Closed
    /\ log = <<>>
    /\ seen = NoRead
    /\ eng = Stopped

Apply(name, id, r) ==
    /\ ops' = r.st.ops
    /\ owner' = r.st.owner
    /\ last' = Call(name, id, r.ret)
    /\ sends' = IF name \in {"put", "enqueue"} THEN [sends EXCEPT ![id] = 0] ELSE sends
    /\ disk' = IF Flushes(name, r) THEN flush_(r.st) ELSE disk
    /\ UNCHANGED <<wk, clock, walvars, eng>>

Now == Store(ops, owner)

\* Ops a caller hands to put(): any status, attempt 0 or 1.
PutOps(ids) ==
    {Operation(i, s, a, 0, 0, 0, "", "k") : i \in ids, s \in Statuses, a \in {0, 1}}

Put(op) ==
    /\ Apply("put", op.id, put(Now, op))
    /\ claimed' = [claimed EXCEPT ![op.id] = 0]

Enqueue(op, now, newId, newKey) ==
    LET r == enqueue(Now, op, now, newId, newKey)
    IN  /\ Apply("enqueue", r.ret, r)
        /\ claimed' = [claimed EXCEPT ![r.ret] = 0]

Claim(id, who, now) ==
    LET r == claim(Now, id, who, now)
    IN  /\ claimed[id] < MaxClaims
        /\ Apply("claim", id, r)
        /\ claimed' = [claimed EXCEPT ![id] = IF r.ret THEN @ + 1 ELSE @]

MarkDone(id, now) ==
    LET r == mark_done(Now, id, now)
    IN  /\ Apply("mark_done", id, r)
        /\ claimed' = [claimed EXCEPT ![id] = IF r.ret THEN 0 ELSE @]

MarkFailed(id, err, now, next) ==
    LET r == mark_failed(Now, id, err, now, next)
    IN  /\ Apply("mark_failed", id, r)
        /\ claimed' = [claimed EXCEPT ![id] = IF r.ret THEN 0 ELSE @]

MarkPermanentFailed(id, err, now) ==
    LET r == mark_permanent_failed(Now, id, err, now)
    IN  /\ Apply("mark_permanent_failed", id, r)
        /\ claimed' = [claimed EXCEPT ![id] = IF r.ret THEN 0 ELSE @]

Fail(id, err, now, retryable) ==
    LET r == fail(Now, id, err, now, retryable)
    IN  /\ Apply("fail", id, r)
        /\ claimed' = [claimed EXCEPT ![id] = IF r.ret THEN 0 ELSE @]

PruneDone(older) ==
    LET r == prune_done(Now, older)
    IN  /\ Apply("prune_done", "", r)
        /\ claimed' = [i \in Ids |-> IF i \in Prunable(Now, older) THEN 0 ELSE claimed[i]]

Requeue(now, timeout) ==
    LET r == requeue_inflight_older_than(Now, now, timeout)
    IN  /\ \A i \in Stuck(Now, now, timeout) : ops[i].attempt < MaxAttempt
        /\ Apply("requeue_inflight_older_than", "", r)
        /\ claimed' = [i \in Ids |-> IF i \in Stuck(Now, now, timeout) THEN 0 ELSE claimed[i]]

\* Spec: every store and outbox call, with any arguments, on the op "a".
StoreIds == {"a"}

\* The ops a caller hands to enqueue: with and without an id, with created_at_ms,
\* updated_at_ms and next_retry_at_ms zero and set.
EnqueueOps ==
    {Operation(i, Pending, 0, c, u, n, "", "") :
        i \in {"", "a"}, c \in {0, 1}, u \in {0, 1}, n \in {0, MaxTime}}

\* SpecEnqueue: callers enqueue such ops, at any times, under both ids.
NextEnqueue ==
    \E op \in EnqueueOps, now \in Times, newId \in Ids : Enqueue(op, now, newId, "k")

SpecEnqueue == Init /\ [][NextEnqueue]_vars

Next ==
    \/ \E op \in PutOps(StoreIds) : Put(op)
    \/ \E i \in StoreIds \cup {""}, now \in Times, n \in StoreIds :
          Enqueue(DefaultOp(i), now, n, "k")
    \/ \E i \in StoreIds, w \in Owners, now \in Times : Claim(i, w, now)
    \/ \E i \in StoreIds, now \in Times : MarkDone(i, now)
    \/ \E i \in StoreIds, e \in Errors, now \in Times, next \in Times :
          MarkFailed(i, e, now, next)
    \/ \E i \in StoreIds, e \in Errors, now \in Times : MarkPermanentFailed(i, e, now)
    \/ \E i \in StoreIds, e \in Errors, now \in Times, r \in BOOLEAN : Fail(i, e, now, r)
    \/ \E t \in Times : PruneDone(t)
    \/ \E now \in Times, timeout \in {1, 2} : Requeue(now, timeout)

Spec == Init /\ [][Next]_vars

\* ---------------------------------------------------------------------------
\* SyncWorker
\* ---------------------------------------------------------------------------
\* What a transport may answer: FakeHttpTransport::toResult blanks the error
\* of a success; a failure carries any text, the empty one included.
SendResults ==
    {SendResult(TRUE, TRUE, ""), SendResult(FALSE, TRUE, "transient"),
     SendResult(FALSE, FALSE, "permanent"), SendResult(FALSE, FALSE, "")}

NoTransport == SendResult(FALSE, TRUE, "No transport configured")

WorkerConfig(limit, timeout) == [batch_limit |-> limit, inflight_timeout_ms |-> timeout]

process_one_mutNoTransportIsPermanent(S, who, now, hasTransport, res, op) ==
    LET c == claim(S, op.id, who, now)
        r == IF hasTransport THEN res[op.id]
             ELSE SendResult(FALSE, FALSE, "No transport configured")
    IN  IF ~c.ret THEN [st |-> S, processed |-> 0, sent |-> {}]
        ELSE [st |-> IF r.ok THEN complete(c.st, op.id, now).st
                     ELSE fail(c.st, op.id, IF r.error = "" THEN "send failed" ELSE r.error,
                               now, r.retryable).st,
              processed |-> 1,
              sent |-> IF hasTransport THEN {op.id} ELSE {}]

\* One turn of the loop of process_ready_ on the batch entry op: the store
\* after it, whether the op was processed, whether transport.send was called.
process_one(S, who, now, hasTransport, res, op) ==
    LET c == claim(S, op.id, who, now)
        r == IF hasTransport THEN res[op.id] ELSE NoTransport
    IN  IF ~c.ret THEN [st |-> S, processed |-> 0, sent |-> {}]
        ELSE [st |-> IF r.ok THEN complete(c.st, op.id, now).st
                     ELSE fail(c.st, op.id, IF r.error = "" THEN "send failed" ELSE r.error,
                               now, r.retryable).st,
              processed |-> 1,
              sent |-> IF hasTransport THEN {op.id} ELSE {}]

RECURSIVE process_from(_, _, _, _, _, _, _)
process_from(S, who, now, hasTransport, res, batch, k) ==
    IF k > Len(batch) THEN [st |-> S, ret |-> 0, sent |-> {}]
    ELSE LET one == process_one(S, who, now, hasTransport, res, batch[k])
             rest == process_from(one.st, who, now, hasTransport, res, batch, k + 1)
         IN  [st |-> rest.st, ret |-> one.processed + rest.ret,
              sent |-> one.sent \cup rest.sent]

\* process_ready_ on the batch that peek_ready returned.
process_ready_(S, who, now, hasTransport, res, batch) ==
    process_from(S, who, now, hasTransport, res, batch, 1)

\* The store a tick works on after its sweep.
swept(S, cfg, now) == requeue_inflight_older_than(S, now, cfg.inflight_timeout_ms).st

tick_mutGateBeforeSweep(S, who, cfg, now, online, hasTransport, res, batch) ==
    IF ~online THEN [st |-> S, ret |-> 0, sent |-> {}]
    ELSE process_ready_(swept(S, cfg, now), who, now, hasTransport, res, batch)

\* SyncWorker::tick: sweep, probe gate, then the batch.
tick(S, who, cfg, now, online, hasTransport, res, batch) ==
    IF ~online THEN [st |-> swept(S, cfg, now), ret |-> 0, sent |-> {}]
    ELSE process_ready_(swept(S, cfg, now), who, now, hasTransport, res, batch)

\* A whole tick of one worker: probe answer, transport answers and the order
\* in which list() yields the ready ops are the inputs.
Tick(who, cfg, now, online, hasTransport, res, batch) ==
    LET r == tick(Now, who, cfg, now, online, hasTransport, res, batch)
        stuck == Stuck(Now, now, cfg.inflight_timeout_ms)
    IN  /\ \A i \in stuck : ops[i].attempt < MaxAttempt
        /\ \A i \in r.sent : sends[i] < MaxSends
        /\ ops' = r.st.ops
        /\ owner' = r.st.owner
        /\ last' = Call("tick", "", r.ret)
        /\ sends' = [i \in Ids |-> IF i \in r.sent THEN sends[i] + 1 ELSE sends[i]]
        /\ claimed' = [i \in Ids |-> IF i \in stuck \/ \E k \in 1..Len(batch) : batch[k].id = i
                                     THEN 0 ELSE claimed[i]]
        /\ disk' = IF stuck # {} \/ r.ret > 0 THEN flush_(r.st) ELSE disk
        /\ UNCHANGED <<wk, clock, walvars, eng>>

Batches(cfg, now, online) ==
    IF online THEN peek_ready(swept(Now, cfg, now), now, cfg.batch_limit) ELSE {<<>>}

\* The transport's answers for the ops of a batch (none without a transport).
Answers(batch, hasTransport) ==
    IF hasTransport THEN [{batch[k].id : k \in 1..Len(batch)} -> SendResults]
    ELSE {<<>>}

WorkerConfigs == {WorkerConfig(l, 2) : l \in 0..2}

\* With one op in the store every batch_limit gives the same batches.
TickConfigs == {WorkerConfig(1, 2)}

\* SpecTick: the op "a" is enqueued, claimed from outside (a worker that died
\* after its claim), and a worker ticks again and again, at any times.
AnyTick(cfgs) ==
    \E cfg \in cfgs, now \in Times, online \in BOOLEAN, hasTransport \in BOOLEAN :
        \E batch \in Batches(cfg, now, online) :
            \E res \in Answers(batch, hasTransport) :
                Tick("w1", cfg, now, online, hasTransport, res, batch)

NextTick ==
    \/ \E now \in Times, n \in StoreIds : Enqueue(DefaultOp(""), now, n, "k")
    \/ \E i \in StoreIds, now \in Times : Claim(i, "w2", now)
    \/ AnyTick(TickConfigs)

SpecTick == Init /\ [][NextTick]_vars

\* SpecBatch: one tick of a worker on a store that holds any ops a caller may
\* have put, under both ids.
BatchOps(i) ==
    {Operation(i, s, a, 0, 0, n, "", "k") : s \in Statuses, a \in {0, 1}, n \in {0, MaxTime}}

StoresOver(ids) ==
    {f \in [ids -> UNION {BatchOps(i) : i \in ids}] : \A i \in ids : f[i].id = i}

InitBatch ==
    /\ \E ids \in SUBSET Ids : ops \in StoresOver(ids)
    /\ owner = [i \in {j \in DOMAIN ops : ops[j].status = InFlight} |-> "w2"]
    /\ last = Call("init", "", 0)
    /\ claimed = [i \in Ids |-> IF i \in DOMAIN owner THEN 1 ELSE 0]
    /\ sends = [i \in Ids |-> 0]
    /\ wk = [w \in Workers |-> Idle]
    /\ clock = 0
    /\ disk = flush_(Store(ops, owner))
    /\ wal = <<>>
    /\ writer = Closed
    /\ log = <<>>
    /\ seen = NoRead
    /\ eng = Stopped

NextBatch == last.call = "init" /\ AnyTick(WorkerConfigs)

SpecBatch == InitBatch /\ [][NextBatch]_vars

\* SpecStore: one call of the store, the outbox or a worker, with any
\* arguments, on a store that holds any ops a caller may have put, under both
\* ids, last updated at the earliest or the latest time.
StoreOps(i) ==
    {Operation(i, s, a, 0, u, n, "", "k") :
        s \in Statuses, a \in {0, 1}, u \in {0, MaxTime}, n \in {0, MaxTime}}

InitStore ==
    /\ \E ids \in SUBSET Ids :
          ops \in {f \in [ids -> UNION {StoreOps(i) : i \in ids}] : \A i \in ids : f[i].id = i}
    /\ owner = [i \in {j \in DOMAIN ops : ops[j].status = InFlight} |-> "w2"]
    /\ last = Call("init", "", 0)
    /\ claimed = [i \in Ids |-> IF i \in DOMAIN owner THEN 1 ELSE 0]
    /\ sends = [i \in Ids |-> 0]
    /\ wk = [w \in Workers |-> Idle]
    /\ clock = 0
    /\ disk = flush_(Store(ops, owner))
    /\ wal = <<>>
    /\ writer = Closed
    /\ log = <<>>
    /\ seen = NoRead
    /\ eng = Stopped

StoreCall ==
    \/ \E op \in PutOps(Ids) : Put(op)
    \/ \E i \in Ids, w \in Owners, now \in Times : Claim(i, w, now)
    \/ \E i \in Ids, now \in Times : MarkDone(i, now)
    \/ \E i \in Ids, e \in Errors, now \in Times, next \in Times :
          MarkFailed(i, e, now, next)
    \/ \E i \in Ids, e \in Errors, now \in Times : MarkPermanentFailed(i, e, now)
    \/ \E i \in Ids, e \in Errors, now \in Times, r \in BOOLEAN : Fail(i, e, now, r)
    \/ \E t \in Times : PruneDone(t)
    \/ \E now \in Times, timeout \in {1, 2} : Requeue(now, timeout)
    \/ AnyTick(WorkerConfigs)

NextStore == last.call = "init" /\ StoreCall

SpecStore == InitStore /\ [][NextStore]_vars

\* ---------------------------------------------------------------------------
\* SpecConc: two worker threads tick on one outbox at the same time. Every
\* store call takes the store's mutex, so each call is one step; the threads
\* interleave between calls and while transport.send runs.
\* ---------------------------------------------------------------------------
\* Outbox::Config::owner, shared by the workers of one outbox.
ConcOwner == "w1"

ConcConfig == WorkerConfig(1, 2)

\* The id the thread w is working on.
CurOp(w) == wk[w].batch[wk[w].k]

\* The thread's locals after the loop body ended having processed n ops.
Advance(rec, n) ==
    IF rec.k < Len(rec.batch)
    THEN [rec EXCEPT !.pc = "claim", !.k = rec.k + 1, !.n = n, !.won = FALSE]
    ELSE [Idle EXCEPT !.wins = rec.wins, !.lost = rec.lost, !.calls = rec.calls]

\* What the last call was after a loop body: the store call, or tick's return.
Ended(rec, n, call) == IF rec.k < Len(rec.batch) THEN call ELSE Call("tick", "", n)

\* tick() begins: the sweep.
ConcStart(w, now) ==
    LET r == requeue_inflight_older_than(Now, now, ConcConfig.inflight_timeout_ms)
        stuck == Stuck(Now, now, ConcConfig.inflight_timeout_ms)
    IN  /\ wk[w].pc = "idle"
        /\ \A i \in stuck : ops[i].attempt < MaxAttempt
        /\ ops' = r.st.ops
        /\ owner' = r.st.owner
        /\ last' = Call("requeue_inflight_older_than", "", r.ret)
        /\ claimed' = [i \in Ids |-> IF i \in stuck THEN 0 ELSE claimed[i]]
        /\ wk' = [wk EXCEPT ![w] = [Idle EXCEPT !.pc = "peek", !.now = now]]
        /\ clock' = Max(clock, now)
        /\ disk' = IF r.ret > 0 THEN flush_(r.st) ELSE disk
        /\ UNCHANGED <<sends, walvars, eng>>

\* should_send_ and, when online, peek_ready.
ConcPeek(w, online, batch) ==
    /\ wk[w].pc = "peek"
    /\ batch \in (IF online THEN peek_ready(Now, wk[w].now, ConcConfig.batch_limit)
                  ELSE {<<>>})
    /\ IF batch = <<>>
       THEN /\ wk' = [wk EXCEPT ![w] = Idle]
            /\ last' = Call("tick", "", 0)
       ELSE /\ wk' = [wk EXCEPT ![w].pc = "claim",
                                ![w].batch = [k \in 1..Len(batch) |-> batch[k].id],
                                ![w].k = 1]
            /\ last' = Call("peek_ready", "", Len(batch))
    /\ UNCHANGED <<ops, owner, claimed, sends, clock, disk, walvars, eng>>

\* outbox_->claim(op.id, now_ms); a refused claim moves on to the next op.
ConcClaim(w) ==
    LET id == CurOp(w)
        r == claim(Now, id, ConcOwner, wk[w].now)
    IN  /\ wk[w].pc = "claim"
        /\ ops' = r.st.ops
        /\ owner' = r.st.owner
        /\ claimed' = [claimed EXCEPT ![id] = IF r.ret THEN @ + 1 ELSE @]
        /\ IF r.ret
           THEN /\ wk' = [wk EXCEPT ![w].pc = "send", ![w].won = TRUE, ![w].wins = @ + 1]
                /\ last' = Call("claim", id, TRUE)
           ELSE /\ wk' = [wk EXCEPT ![w] = Advance([wk[w] EXCEPT !.lost = @ + 1], wk[w].n)]
                /\ last' = Ended(wk[w], wk[w].n, Call("claim", id, FALSE))
        /\ disk' = IF r.ret THEN flush_(r.st) ELSE disk
        /\ UNCHANGED <<sends, clock, walvars, eng>>

\* transport_->send(op) is entered.
ConcSendStart(w) ==
    /\ wk[w].pc = "send"
    /\ sends[CurOp(w)] < MaxSends
    /\ sends' = [sends EXCEPT ![CurOp(w)] = @ + 1]
    /\ wk' = [wk EXCEPT ![w].pc = "sending", ![w].calls = @ + 1]
    /\ UNCHANGED <<ops, owner, last, claimed, clock, disk, walvars, eng>>

\* send returns res: complete(), or the get() that opens fail().
ConcSendEnd(w, res) ==
    LET id == CurOp(w)
        done == complete(Now, id, wk[w].now)
        cur == get(Now, id)
    IN  /\ wk[w].pc = "sending"
        /\ IF res.ok
           THEN /\ ops' = done.st.ops
                /\ owner' = done.st.owner
                /\ claimed' = [claimed EXCEPT ![id] = 0]
                /\ wk' = [wk EXCEPT ![w] = Advance(wk[w], wk[w].n + 1)]
                /\ last' = Ended(wk[w], wk[w].n + 1, Call("mark_done", id, done.ret))
                /\ disk' = IF done.ret THEN flush_(done.st) ELSE disk
           ELSE IF cur = <<>>
           THEN /\ wk' = [wk EXCEPT ![w] = Advance(wk[w], wk[w].n + 1)]
                /\ last' = Ended(wk[w], wk[w].n + 1, Call("get", id, FALSE))
                /\ UNCHANGED <<ops, owner, claimed, disk>>
           ELSE /\ wk' = [wk EXCEPT ![w].pc = "fail", ![w].res = res,
                                    ![w].attempt = cur[1].attempt + 1]
                /\ last' = Call("get", id, TRUE)
                /\ UNCHANGED <<ops, owner, claimed, disk>>
        /\ UNCHANGED <<sends, clock, walvars, eng>>

\* The mark_permanent_failed or mark_failed that closes fail().
ConcFail(w) ==
    LET id == CurOp(w)
        res == wk[w].res
        r == fail_mark(Now, id, IF res.error = "" THEN "send failed" ELSE res.error,
                       wk[w].now, res.retryable, wk[w].attempt)
    IN  /\ wk[w].pc = "fail"
        /\ ops' = r.st.ops
        /\ owner' = r.st.owner
        /\ claimed' = [claimed EXCEPT ![id] = 0]
        /\ wk' = [wk EXCEPT ![w] = Advance(wk[w], wk[w].n + 1)]
        /\ last' = Ended(wk[w], wk[w].n + 1, Call("fail", id, r.ret))
        /\ disk' = IF r.ret THEN flush_(r.st) ELSE disk
        /\ UNCHANGED <<sends, clock, walvars, eng>>

\* An op is enqueued under a generated id, one the store does not hold.
ConcEnqueue(now, newId) ==
    /\ newId \notin DOMAIN ops
    /\ Enqueue(DefaultOp(""), now, newId, "k")

NextConc ==
    \/ \E now \in Times, n \in StoreIds : ConcEnqueue(now, n)
    \/ \E w \in Workers, now \in Times : ConcStart(w, now)
    \/ \E w \in Workers, online \in BOOLEAN :
           \E batch \in {<<>>} \cup peek_ready(Now, wk[w].now, ConcConfig.batch_limit) :
               ConcPeek(w, online, batch)
    \/ \E w \in Workers : ConcClaim(w)
    \/ \E w \in Workers : ConcSendStart(w)
    \/ \E w \in Workers, res \in SendResults : ConcSendEnd(w, res)
    \/ \E w \in Workers : ConcFail(w)

SpecConc == Init /\ [][NextConc]_vars

\* ---------------------------------------------------------------------------
\* SpecDisk: the store's mutators on the op "a" when the file may be
\* unwritable: flush_ then throws std::runtime_error out of the call.
\* ---------------------------------------------------------------------------
\* One mutator call. Every mutator changes ops_ and owner_ before it calls
\* flush_; canWrite says whether flush_ can open the file for writing.
ApplyDisk(name, id, r, canWrite) ==
    /\ ops' = r.st.ops
    /\ owner' = r.st.owner
    /\ IF Flushes(name, r) /\ ~canWrite
       THEN /\ last' = Call("runtime_error", id, 0)
            /\ disk' = disk
       ELSE /\ last' = Call(name, id, r.ret)
            /\ disk' = IF Flushes(name, r) THEN flush_(r.st) ELSE disk
    /\ UNCHANGED <<claimed, sends, wk, clock, walvars, eng>>

DiskPut(op, canWrite) == ApplyDisk("put", op.id, put(Now, op), canWrite)

DiskClaim(id, who, now, canWrite) ==
    ApplyDisk("claim", id, claim(Now, id, who, now), canWrite)

DiskMarkDone(id, now, canWrite) ==
    ApplyDisk("mark_done", id, mark_done(Now, id, now), canWrite)

DiskMarkFailed(id, err, now, next, canWrite) ==
    ApplyDisk("mark_failed", id, mark_failed(Now, id, err, now, next), canWrite)

DiskMarkPermanentFailed(id, err, now, canWrite) ==
    ApplyDisk("mark_permanent_failed", id, mark_permanent_failed(Now, id, err, now), canWrite)

DiskPruneDone(older, canWrite) ==
    ApplyDisk("prune_done", "", prune_done(Now, older), canWrite)

DiskRequeue(now, timeout, canWrite) ==
    /\ \A i \in Stuck(Now, now, timeout) : ops[i].attempt < MaxAttempt
    /\ ApplyDisk("requeue_inflight_older_than", "",
                 requeue_inflight_older_than(Now, now, timeout), canWrite)

NextDisk ==
    \/ \E op \in PutOps(StoreIds), canWrite \in BOOLEAN : DiskPut(op, canWrite)
    \/ \E i \in StoreIds, now \in Times, canWrite \in BOOLEAN : DiskClaim(i, "w1", now, canWrite)
    \/ \E i \in StoreIds, now \in Times, canWrite \in BOOLEAN : DiskMarkDone(i, now, canWrite)
    \/ \E i \in StoreIds, e \in Errors, now \in Times, canWrite \in BOOLEAN :
           DiskMarkFailed(i, e, now, now, canWrite)
    \/ \E i \in StoreIds, e \in Errors, now \in Times, canWrite \in BOOLEAN :
           DiskMarkPermanentFailed(i, e, now, canWrite)
    \/ \E older \in Times, canWrite \in BOOLEAN : DiskPruneDone(older, canWrite)
    \/ \E now \in Times, canWrite \in BOOLEAN : DiskRequeue(now, 2, canWrite)

SpecDisk == Init /\ [][NextDisk]_vars

\* ---------------------------------------------------------------------------
\* The write-ahead log as a state machine: records are appended through a
\* long-lived WalWriter or through Wal::append, and read back by a WalReader
\* or by Wal::replay, from the file as it is or as a crash or a stray write
\* left it. The file has one writer at a time.
\* ---------------------------------------------------------------------------
\* Records with an empty and a filled id, payload and error, every record
\* type, one-byte and two-byte numbers and a negative one.
WalRecords ==
    {WalRecord(RecordType.MarkDone, <<>>, <<>>, <<>>, 0, 0),
     WalRecord(RecordType.PutOperation, <<97>>, <<1, 255>>, <<>>, 1, 0),
     WalRecord(RecordType.MarkFailed, <<97, 98>>, <<>>, <<101>>, 300, -1)}

\* WalWriter::append on the writer w: the offset is taken first, the bytes
\* go to the end of the file (the stream is in append mode) and the put
\* position follows them.
writer_append(bytes, w, r) ==
    [file |-> bytes \o Encode(r), pos |-> Len(bytes \o Encode(r)), ret |-> w.pos]

\* WalWriter's constructor.
WriterOpen ==
    /\ ~writer.open
    /\ writer' = [open |-> TRUE, pos |-> OpenPos(wal)]
    /\ UNCHANGED <<wal, log, seen, syncvars>>

\* WalWriter's destructor.
WriterClose ==
    /\ writer.open
    /\ writer' = [writer EXCEPT !.open = FALSE]
    /\ UNCHANGED <<wal, log, seen, syncvars>>

\* append on the long-lived writer.
WriterAppend(r) ==
    LET a == writer_append(wal, writer, r)
    IN  /\ writer.open
        /\ Len(log) < MaxAppends
        /\ wal' = a.file
        /\ writer' = [writer EXCEPT !.pos = a.pos]
        /\ log' = Append(log, [rec |-> r, offset |-> a.ret])
        /\ seen' = NoRead
        /\ UNCHANGED syncvars

\* Wal::append: a writer of its own, opened for this one append.
WalAppend(r) ==
    LET w == [open |-> TRUE, pos |-> OpenPos(wal)]
        a == writer_append(wal, w, r)
    IN  /\ ~writer.open
        /\ Len(log) < MaxAppends
        /\ wal' = a.file
        /\ log' = Append(log, [rec |-> r, offset |-> a.ret])
        /\ seen' = NoRead
        /\ UNCHANGED <<writer, syncvars>>

\* The byte position where the k-th appended record begins.
RECURSIVE Begin(_)
Begin(k) == IF k = 1 THEN 0 ELSE Begin(k - 1) + Len(Encode(log[k - 1].rec))

\* A fresh WalReader: seek(off), then next().
ReaderNext(off) ==
    LET r == reader_next(wal, off)
    IN  /\ seen' = [call |-> "next", from |-> off, cut |-> 0, bad |-> 0,
                    field |-> "none",
                    recs |-> IF r.ok THEN <<r.rec>> ELSE <<>>, last |-> off]
        /\ UNCHANGED <<wal, writer, log, syncvars>>

\* Wal::replay over the file as it is (cut = 0, bad = 0), with its last cut
\* bytes lost, or with the header of the bad-th record overwritten.
WalReplay(from_offset, cut, bad, field) ==
    LET bytes == IF cut > 0 THEN Truncated(wal, cut)
                 ELSE IF bad > 0 THEN Damaged(wal, Begin(bad), field)
                 ELSE wal
        r == replay(bytes, from_offset)
    IN  /\ seen' = [call |-> "replay", from |-> from_offset, cut |-> cut,
                    bad |-> bad, field |-> field, recs |-> r.recs, last |-> r.last]
        /\ UNCHANGED <<wal, writer, log, syncvars>>

Begins == {0} \cup {Begin(k) : k \in 1..Len(log)}

\* How many bytes the file loses: few and many, up to all but one byte of
\* its last record.
Cuts ==
    LET size == Len(Encode(log[Len(log)].rec))
    IN  {b \in {1, 2, 5, 12, 30, size - 1} : 0 < b /\ b < size}

\* The offsets a replay starts from: where a record begins, one byte into
\* its header, and behind its header.
Froms == Begins \cup {b + 1 : b \in Begins} \cup {b + HeaderSize : b \in Begins}

NextWal ==
    \/ WriterOpen
    \/ WriterClose
    \/ \E r \in WalRecords : WriterAppend(r)
    \/ \E r \in WalRecords : WalAppend(r)
    \/ \E off \in Begins \cup {log[k].offset : k \in 1..Len(log)} : ReaderNext(off)
    \/ \E from \in Froms : WalReplay(from, 0, 0, "none")
    \/ /\ log # <<>>
       /\ \E cut \in Cuts : WalReplay(0, cut, 0, "none")
    \/ \E bad \in 1..Len(log), field \in {"magic", "version"} :
          WalReplay(0, 0, bad, field)

SpecWal == Init /\ [][NextWal]_vars

\* ---------------------------------------------------------------------------
\* SyncEngine: start(), stop(), the background loop and tick(). One thread
\* calls start(), stop() and tick(); the loop runs on thread_. The engine's
\* workers share one outbox and tick one after the other.
\* ---------------------------------------------------------------------------
\* The most threads start() creates in one run.
MaxStarts == 2

EngineConfig == [worker_count |-> 2, batch_limit |-> 1, inflight_timeout_ms |-> 2]

\* The SyncWorker::Config the constructor gives every worker.
EngineWorker == WorkerConfig(EngineConfig.batch_limit, EngineConfig.inflight_timeout_ms)

\* start(): running_.exchange(true), then the thread. Assigning to a thread_
\* that is still joinable ends the process (std::terminate).
start(e) ==
    IF e.running THEN e
    ELSE [e EXCEPT !.running = TRUE,
                   !.thread = IF e.thread = "none" THEN "loop" ELSE "terminate",
                   !.pc = "while",
                   !.live = @ + 1,
                   !.loops = @ + 1]

stop_mutNoJoin(e) == [e EXCEPT !.running = FALSE]

\* stop() up to its join: running_.exchange(false), then it waits for the
\* thread when thread_ is joinable.
stop(e) ==
    IF ~e.running THEN e
    ELSE [e EXCEPT !.running = FALSE,
                   !.caller = IF e.thread \in {"loop", "end"} THEN "join" ELSE "ready"]

\* The ticks one worker can make on the store S at now: the probe's answer,
\* the order of the ready ops and the transport's answers vary.
WorkerTicks(S, now, hasTransport) ==
    UNION {UNION {{tick(S, ConcOwner, EngineWorker, now, online, hasTransport, res, batch) :
                      res \in Answers(batch, hasTransport)} :
                  batch \in (IF online
                             THEN peek_ready(swept(S, EngineWorker, now), now,
                                             EngineWorker.batch_limit)
                             ELSE {<<>>})} :
           online \in BOOLEAN}

engine_tick_mutLastWorker(S, now, hasTransport, k) ==
    {[st |-> r.st, ret |-> r.ret, rets |-> <<r.ret>>,
      calls |-> [i \in Ids |-> IF i \in r.sent THEN 1 ELSE 0]] :
        r \in WorkerTicks(S, now, hasTransport)}

\* SyncEngine::tick from the k-th worker on: the store after it, the total it
\* returns, each worker's result, and the transport.send calls per op.
RECURSIVE engine_tick(_, _, _, _)
engine_tick(S, now, hasTransport, k) ==
    IF k > EngineConfig.worker_count
    THEN {[st |-> S, ret |-> 0, rets |-> <<>>, calls |-> [i \in Ids |-> 0]]}
    ELSE UNION {{[st |-> rest.st,
                  ret |-> r.ret + rest.ret,
                  rets |-> <<r.ret>> \o rest.rets,
                  calls |-> [i \in Ids |-> (IF i \in r.sent THEN 1 ELSE 0) + rest.calls[i]]] :
                    rest \in engine_tick(r.st, now, hasTransport, k + 1)} :
                r \in WorkerTicks(S, now, hasTransport)}

\* One SyncEngine::tick(now) by the thread who.
EngineTick(who, now, hasTransport) ==
    \E r \in engine_tick(Now, now, hasTransport, 1) :
        /\ \A i \in Stuck(Now, now, EngineWorker.inflight_timeout_ms) :
               ops[i].attempt < MaxAttempt
        /\ \A i \in Ids : sends[i] + r.calls[i] <= MaxSends
        /\ ops' = r.st.ops
        /\ owner' = r.st.owner
        /\ last' = Call("tick", who, [total |-> r.ret, rets |-> r.rets, calls |-> r.calls])
        /\ sends' = [i \in Ids |-> sends[i] + r.calls[i]]
        /\ claimed' = [i \in Ids |-> IF i \in DOMAIN r.st.owner THEN claimed[i] ELSE 0]
        /\ clock' = Max(clock, now)
        /\ disk' = IF r.st = Now THEN disk ELSE flush_(r.st)
        /\ UNCHANGED <<wk, walvars>>

\* The caller calls start().
EngineStart ==
    /\ eng.caller = "ready"
    /\ eng.running \/ eng.loops < MaxStarts
    /\ eng' = [start(eng) EXCEPT !.asked = "start"]
    /\ last' = Call("start", "", ~eng.running)
    /\ UNCHANGED <<ops, owner, claimed, sends, wk, clock, disk, walvars>>

\* The caller calls stop(); it returns at once or waits in join().
EngineStop ==
    /\ eng.caller = "ready"
    /\ eng' = [stop(eng) EXCEPT !.asked = "stop"]
    /\ last' = Call("stop", "", eng.running)
    /\ UNCHANGED <<ops, owner, claimed, sends, wk, clock, disk, walvars>>

\* thread_.join() returns: run_loop_ has returned.
EngineJoin ==
    /\ eng.caller = "join"
    /\ eng.thread = "end"
    /\ eng' = [eng EXCEPT !.caller = "ready", !.thread = "none"]
    /\ last' = Call("join", "", TRUE)
    /\ UNCHANGED <<ops, owner, claimed, sends, wk, clock, disk, walvars>>

\* while (running_.load()): into the loop body, or out of run_loop_.
LoopWhile ==
    /\ eng.thread = "loop"
    /\ eng.pc = "while"
    /\ eng' = IF eng.running THEN [eng EXCEPT !.pc = "tick"]
              ELSE [eng EXCEPT !.thread = "end", !.live = @ - 1]
    /\ UNCHANGED <<ops, owner, last, claimed, sends, wk, clock, disk, walvars>>

\* The loop body: tick(now_ms()) on the steady clock, then the sleep or yield.
LoopTick(now, hasTransport) ==
    /\ eng.thread = "loop"
    /\ eng.pc = "tick"
    /\ now >= clock
    /\ EngineTick("loop", now, hasTransport)
    /\ eng' = [eng EXCEPT !.pc = "while"]

\* The caller calls tick(now) itself.
ManualTick(now, hasTransport) ==
    /\ eng.caller = "ready"
    /\ EngineTick("caller", now, hasTransport)
    /\ UNCHANGED eng

NextEngine ==
    \/ \E now \in Times, n \in StoreIds : Enqueue(DefaultOp(""), now, n, "k")
    \/ EngineStart
    \/ EngineStop
    \/ EngineJoin
    \/ LoopWhile
    \/ \E now \in Times, hasTransport \in BOOLEAN : LoopTick(now, hasTransport)
    \/ \E now \in Times, hasTransport \in BOOLEAN : ManualTick(now, hasTransport)

SpecEngine == Init /\ [][NextEngine]_vars

\* SpecCount: two threads tick a worker each, as in SpecConc, and a caller
\* ticks an engine of two more workers (with a transport) by hand, all on one
\* outbox. The engine's tick is taken whole, between the store calls of the
\* two threads. Every tick is given the time of one clock that never goes
\* back.
NextCount ==
    \/ \E n \in StoreIds : ConcEnqueue(clock, n)
    \/ \E w \in Workers, now \in Times : now >= clock /\ ConcStart(w, now)
    \/ \E w \in Workers, online \in BOOLEAN :
           \E batch \in {<<>>} \cup peek_ready(Now, wk[w].now, ConcConfig.batch_limit) :
               ConcPeek(w, online, batch)
    \/ \E w \in Workers : ConcClaim(w)
    \/ \E w \in Workers : ConcSendStart(w)
    \/ \E w \in Workers, res \in SendResults : ConcSendEnd(w, res)
    \/ \E w \in Workers : ConcFail(w)
    \/ ManualTick(clock, TRUE)

SpecCount == Init /\ [][NextCount]_vars

\* ---------------------------------------------------------------------------
\* SpecLive: a worker with batch_limit 1 ticks for ever on a store that holds
\* an op "a" that failed once and is ready, and any op "b"; the probe is
\* online, the transport answers ok for the op "b" and anything for the op
\* "a"; now never goes back and reaches MaxTime, which stands for every later
\* time.
\* ---------------------------------------------------------------------------
LiveConfig == WorkerConfig(1, 2)

\* The order in which the store's unordered_map yields its entries: it is the
\* same at every tick, since no call of a tick inserts or erases an entry.
MapOrder == <<"a", "b">>

ListedNow(S, now) == Listed(S, ListOptions(LiveConfig.batch_limit, now, TRUE, FALSE))

\* What peek_ready returns on a map that iterates in MapOrder.
LiveBatch(S, now) ==
    LET match == SelectSeq(MapOrder, LAMBDA i : i \in ListedNow(S, now))
        n == Min(Len(match), Max(LiveConfig.batch_limit, 1))
    IN  [k \in 1..n |-> S.ops[match[k]]]

\* One tick; turn tells one tick from the next.
LiveTick(now, res) ==
    LET batch == LiveBatch(swept(Now, LiveConfig, now), now)
        r == tick(Now, "w1", LiveConfig, now, TRUE, TRUE, res, batch)
    IN  /\ now >= clock
        /\ clock' = now
        /\ ops' = r.st.ops
        /\ owner' = r.st.owner
        /\ last' = Call("tick", "", [ret |-> r.ret,
                                     turn |-> IF last.call = "tick" THEN 1 - last.val.turn
                                              ELSE 0])
        /\ disk' = flush_(Store(ops', owner'))
        /\ UNCHANGED <<claimed, sends, wk, walvars, eng>>

InitLive ==
    /\ InitBatch
    /\ DOMAIN ops = Ids
    /\ ops["a"].status \in {Pending, Failed}
    /\ ops["a"].attempt = 1
    /\ ops["a"].next_retry_at_ms = 0

\* The transport's answers: ok for "b", anything for "a".
LiveResults == {[a |-> ra, b |-> SendResult(TRUE, TRUE, "")] : ra \in SendResults}

NextLive == \E now \in Times, res \in LiveResults : LiveTick(now, res)

\* A tick with a later now.
LaterTick == \E now \in Times, res \in LiveResults : now > clock /\ LiveTick(now, res)

\* Ticks keep occurring, and now keeps advancing while the model has a later
\* time.
SpecLive == InitLive /\ [][NextLive]_vars /\ WF_vars(NextLive) /\ WF_vars(LaterTick)

\* ---------------------------------------------------------------------------
\* SpecClaim: callers put Pending ops under both ids, claim them under either
\* owner and mark them failed, at any times and in any order.
\* ---------------------------------------------------------------------------
NextClaim ==
    \/ \E i \in Ids : Put(DefaultOp(i))
    \/ \E i \in Ids, w \in Owners, now \in Times : Claim(i, w, now)
    \/ \E i \in Ids, e \in Errors, now \in Times, next \in Times :
          MarkFailed(i, e, now, next)

SpecClaim == Init /\ [][NextClaim]_vars

\* ---------------------------------------------------------------------------
\* SpecRetry: ops are enqueued and a worker sends the ready ones, one at a
\* time, in an outbox whose retry policy leaves room for the delay to grow;
\* no sweep runs. The clock never goes back.
\* ---------------------------------------------------------------------------
MaxRetryTime == 6

RetryTimes == 0..MaxRetryTime

\* RetryPolicy with 4 attempts and delays 1, 2, 4, 4, ...
BackoffPolicy == [max_attempts |-> 4, base_delay_ms |-> 1, max_delay_ms |-> 4, factor |-> 2]

RetryEnqueue(now, newId) ==
    LET r == enqueue(Now, DefaultOp(""), now, newId, "k")
    IN  /\ newId \notin DOMAIN ops
        /\ now >= clock
        /\ ops' = r.st.ops
        /\ owner' = r.st.owner
        /\ last' = Call("enqueue", newId, newId)
        /\ sends' = [sends EXCEPT ![newId] = 0]
        /\ claimed' = [claimed EXCEPT ![newId] = 0]
        /\ clock' = now
        /\ disk' = flush_(r.st)
        /\ UNCHANGED <<wk, walvars, eng>>

\* One turn of the loop of process_ready_ at now, on an op peek_ready(now)
\* yields: claim, send, then complete or fail.
RetrySend(id, now, res) ==
    LET c == claim(Now, id, ConcOwner, now)
        r == IF res.ok THEN complete(c.st, id, now)
             ELSE fail_with(BackoffPolicy, c.st, id,
                            IF res.error = "" THEN "send failed" ELSE res.error,
                            now, res.retryable)
    IN  /\ now >= clock
        /\ \E batch \in peek_ready(Now, now, 1) : Len(batch) = 1 /\ batch[1].id = id
        /\ sends[id] < BackoffPolicy.max_attempts
        /\ c.ret
        /\ ops' = r.st.ops
        /\ owner' = r.st.owner
        /\ last' = Call(IF res.ok THEN "complete" ELSE "fail", id, r.ret)
        /\ sends' = [sends EXCEPT ![id] = @ + 1]
        /\ claimed' = [claimed EXCEPT ![id] = 0]
        /\ clock' = now
        /\ disk' = flush_(r.st)
        /\ UNCHANGED <<wk, walvars, eng>>

NextRetry ==
    \/ \E now \in RetryTimes, newId \in Ids : RetryEnqueue(now, newId)
    \/ \E id \in Ids, now \in RetryTimes, res \in SendResults : RetrySend(id, now, res)

SpecRetry == Init /\ [][NextRetry]_vars

\* ---------------------------------------------------------------------------
\* SpecDelay: compute_delay_ms is called with any attempt on the default
\* policy and on the two policies of the outboxes above.
\* ---------------------------------------------------------------------------
MaxDelayAttempt == 70

\* RetryPolicy{} as declared.
DefaultPolicy ==
    [max_attempts |-> 8, base_delay_ms |-> 500, max_delay_ms |-> 30000, factor |-> 2]

ComputeDelay(p, attempt) ==
    /\ \E v \in compute_delay_outcomes(p, attempt) :
          last' = Call("compute_delay_ms", "", [policy |-> p, attempt |-> attempt, delay |-> v])
    /\ UNCHANGED <<ops, owner, claimed, sends, wk, clock, disk, walvars, eng>>

NextDelay ==
    \E p \in {DefaultPolicy, BackoffPolicy, retry}, attempt \in 0..MaxDelayAttempt :
        ComputeDelay(p, attempt)

SpecDelay == Init /\ [][NextDelay]_vars


\* ---------------------------------------------------------------------------
\* Properties of the store and outbox API (checked under Spec)
\* ---------------------------------------------------------------------------
Exists(i) == i \in DOMAIN ops
StatusOf(i) == ops[i].status

\* C1: between two releases of an op (mark_done, mark_failed,
\* mark_permanent_failed, sweep requeue; a put makes a new op) at most one
\* claim on it returns true, whoever the owners are: right after a claim
\* returned true the next claim on the same id returns false.
C1_AtMostOneClaimPerRelease ==
    \A i \in Ids : claimed[i] <= 1

\* A claim by some owner has just been refused on an op that an earlier claim
\* took and nobody released.
C1_SecondClaimRefused ==
    /\ last.call = "claim" /\ last.id = "a" /\ last.val = FALSE
    /\ claimed["a"] = 1
    /\ Exists("a") /\ StatusOf("a") = InFlight
    /\ "a" \in DOMAIN owner

StoreCalls ==
    {"claim", "mark_done", "mark_failed", "mark_permanent_failed",
     "requeue_inflight_older_than"}

\* C2: once an op is Done or PermanentFailed, no claim, mark_done,
\* mark_failed, mark_permanent_failed or requeue_inflight_older_than changes
\* its status.
C2_TerminalStatusKept ==
    [][\A i \in Ids :
          (Exists(i) /\ StatusOf(i) \in {Done, PermanentFailed} /\ last'.call \in StoreCalls)
              => (i \in DOMAIN ops' /\ ops'[i].status = StatusOf(i))]_vars

\* C3: the owner table has an entry for an id exactly when the op exists and
\* is InFlight.
C3_OwnerIffInFlight ==
    \A i \in Ids : (i \in DOMAIN owner) <=> (Exists(i) /\ StatusOf(i) = InFlight)

\* C6: every Outbox.fail on an existing op increases its stored attempt by 1.
C6_FailIncrementsAttempt ==
    [][\A i \in Ids :
          (last'.call = "fail" /\ last'.id = i /\ Exists(i))
              => ops'[i].attempt = ops[i].attempt + 1]_vars

\* C7 as stated: the stored attempt of an op never decreases, whatever the call.
C7_AttemptNeverDecreases ==
    [][\A i \in Ids :
          (Exists(i) /\ i \in DOMAIN ops') => ops'[i].attempt >= ops[i].attempt]_vars

\* C7 amended: the stored attempt of an op never decreases across claim,
\* complete, fail, mark_*, prune and sweep; only an enqueue or put on the same
\* id, which replaces the op, can lower it.
C7_AttemptKeptUnlessReplaced ==
    [][\A i \in Ids :
          (/\ Exists(i) /\ i \in DOMAIN ops'
           /\ ~(last'.call \in {"put", "enqueue"} /\ last'.id = i))
              => ops'[i].attempt >= ops[i].attempt]_vars

\* An op was swept twice (attempt 2), failed and claimed again, and completed.
C7_SweptTwiceThenDone ==
    /\ Exists("a") /\ StatusOf("a") = Done
    /\ ops["a"].attempt = MaxAttempt
    /\ last.call = "mark_done"

\* ---------------------------------------------------------------------------
\* Properties of the worker tick (checked under SpecTick and SpecBatch)
\* ---------------------------------------------------------------------------
\* C5: the number of transport.send calls made for an op never exceeds
\* max_attempts.
C5_SendsNeverExceedMaxAttempts ==
    \A i \in Ids : sends[i] <= retry.max_attempts

Limits == 0..2

\* C8: in every store state, for every now and limit, each op peek_ready
\* returns is Pending or Failed and has next_retry_at_ms <= now.
C8_PeekReadyOnlyReady ==
    \A now \in Times, limit \in Limits :
        \A batch \in peek_ready(Now, now, limit) :
            \A k \in 1..Len(batch) :
                /\ batch[k].status \in {Pending, Failed}
                /\ batch[k].next_retry_at_ms <= now

\* peek_ready returns the ready op "a" and leaves out "b", which is
\* PermanentFailed with a retry time that has passed.
C8_ReadyReturnedTerminalLeftOut ==
    /\ Exists("a") /\ StatusOf("a") = Failed /\ ops["a"].next_retry_at_ms = 0
    /\ Exists("b") /\ StatusOf("b") = PermanentFailed /\ ops["b"].next_retry_at_ms = 0
    /\ peek_ready(Now, 0, 2) = {<<ops["a"]>>}

\* The ops the claim C9 calls ready at a tick.
ReadyAt(now) ==
    {i \in DOMAIN ops : StatusOf(i) \in {Pending, Failed} /\ ops[i].next_retry_at_ms <= now}

AllOk(batch) == [i \in {batch[k].id : k \in 1..Len(batch)} |-> SendResult(TRUE, TRUE, "")]

SentOk(i) ==
    /\ i \in DOMAIN ops' /\ ops'[i].status = Done /\ ops'[i].last_error = ""
    /\ i \notin DOMAIN owner'

\* C9: with the probe online and the transport answering ok, one tick of the
\* only worker leaves every op of its batch (the ready ops, at most batch_limit
\* of them) Done with last_error empty and no owner; all ready ops when they
\* fit in batch_limit; and it returns at least 1 when an op was ready.
C9_TickCompletesReadyOps ==
    [][\A cfg \in WorkerConfigs, now \in Times :
          \A batch \in Batches(cfg, now, TRUE) :
              Tick("w1", cfg, now, TRUE, TRUE, AllOk(batch), batch)
                  => /\ \A k \in 1..Len(batch) : SentOk(batch[k].id)
                     /\ Cardinality(ReadyAt(now) \cup Stuck(Now, now, cfg.inflight_timeout_ms))
                            <= cfg.batch_limit
                          => \A i \in ReadyAt(now) : SentOk(i)
                     /\ ReadyAt(now) # {} => last'.val >= 1]_vars

\* One tick has sent both ops and both are Done.
C9_BothOpsDone ==
    /\ last.call = "tick" /\ last.val = 2
    /\ \A i \in Ids : /\ Exists(i) /\ StatusOf(i) = Done /\ ops[i].last_error = ""
                      /\ i \notin DOMAIN owner /\ sends[i] = 1

\* A tick with the probe online and a transport set, as a step.
OnlineTick(cfg, now, res, batch) == Tick("w1", cfg, now, TRUE, TRUE, res, batch)

PermanentStays ==
    \A i \in Ids :
        (Exists(i) /\ StatusOf(i) = PermanentFailed /\ last'.call = "tick")
            => /\ sends'[i] = sends[i]
               /\ i \in DOMAIN ops' /\ ops'[i].status = PermanentFailed

Refused(res, i) == i \in DOMAIN res /\ ~res[i].ok /\ ~res[i].retryable

\* C10 as stated: a send answered ok=false, retryable=false leaves the op
\* PermanentFailed with last_error equal to the transport's error text, and no
\* later tick sends it or changes its status.
C10_PermanentFailureKeepsTransportText ==
    [][/\ \A cfg \in TickConfigs, now \in Times :
            \A batch \in Batches(cfg, now, TRUE) :
                \A res \in Answers(batch, TRUE) :
                    OnlineTick(cfg, now, res, batch)
                        => \A i \in Ids :
                              Refused(res, i)
                                  => /\ ops'[i].status = PermanentFailed
                                     /\ ops'[i].last_error = res[i].error
       /\ PermanentStays]_vars

\* C10 amended: the op ends PermanentFailed with last_error equal to the
\* transport's error text, or "send failed" when that text is empty, and no
\* later tick sends it or changes its status.
C10_PermanentFailureRecorded ==
    [][/\ \A cfg \in TickConfigs, now \in Times :
            \A batch \in Batches(cfg, now, TRUE) :
                \A res \in Answers(batch, TRUE) :
                    OnlineTick(cfg, now, res, batch)
                        => \A i \in Ids :
                              Refused(res, i)
                                  => /\ ops'[i].status = PermanentFailed
                                     /\ ops'[i].last_error =
                                            IF res[i].error = "" THEN "send failed"
                                            ELSE res[i].error
       /\ PermanentStays]_vars

\* The op was refused for good in one tick, and a later tick has run without
\* sending anything.
C10_RefusedThenLeftAlone ==
    /\ Exists("a") /\ StatusOf("a") = PermanentFailed
    /\ ops["a"].last_error = "permanent"
    /\ sends["a"] = 1
    /\ last.call = "tick" /\ last.val = 0

\* ---------------------------------------------------------------------------
\* Properties of concurrent ticks (checked under SpecConc)
\* ---------------------------------------------------------------------------
Sending(w) == wk[w].pc = "sending"

\* The inflight timeout has not elapsed since the claim under which w sends:
\* the claim is stamped with w's now_ms.
Fresh(w) == clock - wk[w].now < ConcConfig.inflight_timeout_ms

\* C4: a thread is in transport.send only after its own claim in this tick
\* returned true, and two threads are never both in transport.send for the same
\* op while the inflight timeout has not elapsed since either one's claim.
C4_NoOverlappingSends ==
    /\ \A w \in Workers : wk[w].pc \in {"send", "sending"} => wk[w].won
    /\ \A w1, w2 \in Workers :
           (w1 # w2 /\ Sending(w1) /\ Sending(w2) /\ CurOp(w1) = CurOp(w2))
               => ~(Fresh(w1) /\ Fresh(w2))

\* ---------------------------------------------------------------------------
\* Retry, sweep and offline ticks (checked under SpecTick)
\* ---------------------------------------------------------------------------
Transient(res, i) == i \in DOMAIN res /\ ~res[i].ok /\ res[i].retryable

\* No tick earlier than a Failed op's next_retry_at_ms sends it.
NotSentEarly ==
    \A cfg \in TickConfigs, now \in Times, online \in BOOLEAN, hasTransport \in BOOLEAN :
        \A batch \in Batches(cfg, now, online) :
            \A res \in Answers(batch, hasTransport) :
                Tick("w1", cfg, now, online, hasTransport, res, batch)
                    => \A i \in DOMAIN ops :
                          (StatusOf(i) = Failed /\ now < ops[i].next_retry_at_ms)
                              => sends'[i] = sends[i]

\* A tick at a Failed op's next_retry_at_ms, answered ok, sends it and leaves it Done.
RetriedWhenDue ==
    \A cfg \in TickConfigs, now \in Times :
        \A batch \in Batches(cfg, now, TRUE) :
            OnlineTick(cfg, now, AllOk(batch), batch)
                => \A i \in DOMAIN ops :
                      (StatusOf(i) = Failed /\ now = ops[i].next_retry_at_ms)
                          => sends'[i] = sends[i] + 1 /\ ops'[i].status = Done

TickRuns(S, cfg, now, online, hasTransport) ==
    UNION {{tick(S, "w1", cfg, now, online, hasTransport, res, batch) :
                res \in Answers(batch, hasTransport)} :
           batch \in (IF online THEN peek_ready(swept(S, cfg, now), now, cfg.batch_limit)
                      ELSE {<<>>})}

\* The outcomes of one tick with the probe online and the transport answering ok.
OkRuns(S, cfg, now) ==
    {tick(S, "w1", cfg, now, TRUE, TRUE, AllOk(batch), batch) :
        batch \in peek_ready(swept(S, cfg, now), now, cfg.batch_limit)}

\* The op i is InFlight under a claim whose owner is gone; the claim was
\* stamped ops[i].updated_at_ms.
Abandoned(i) == Exists(i) /\ StatusOf(i) = InFlight

Young(i, cfg, now) == now - ops[i].updated_at_ms < cfg.inflight_timeout_ms

LeftAlone(i, r) == i \notin r.sent /\ r.st.ops[i].status = InFlight

Requeued(i, now) ==
    /\ i \in DOMAIN ops' /\ i \notin DOMAIN owner'
    /\ ops'[i].status = Failed /\ ops'[i].last_error = RequeueError
    /\ ops'[i].next_retry_at_ms = now

\* C13: a tick with the probe offline returns 0, sends nothing and leaves every
\* Pending or Failed op as it was; its sweep still requeues to Failed the
\* InFlight ops that timed out, and only those.
C13_OfflineTickOnlySweeps ==
    [][\A cfg \in WorkerConfigs, now \in Times, hasTransport \in BOOLEAN :
          Tick("w1", cfg, now, FALSE, hasTransport, <<>>, <<>>)
              => /\ last'.val = 0
                 /\ sends' = sends
                 /\ \A i \in DOMAIN ops :
                        IF StatusOf(i) = InFlight /\ ~Young(i, cfg, now)
                        THEN Requeued(i, now)
                        ELSE i \in DOMAIN ops' /\ ops'[i] = ops[i]]_vars

\* An offline tick has run: it returned 0 and sent nothing, the ready op "b" is
\* still Pending, and the timed-out op "a" was requeued.
C13_OfflineSweepSeen ==
    /\ last.call = "tick" /\ last.val = 0
    /\ Exists("a") /\ StatusOf("a") = Failed /\ ops["a"].last_error = RequeueError
    /\ "a" \notin DOMAIN owner
    /\ Exists("b") /\ StatusOf("b") = Pending /\ ops["b"].next_retry_at_ms = 0
    /\ sends["b"] = 0

\* ---------------------------------------------------------------------------
\* The inflight sweep as a store call (checked under Spec)
\* ---------------------------------------------------------------------------
RequeueTimeouts == {1, 2}

\* The ops the claim C14 says the sweep changes.
TimedOut(now, timeout) ==
    {i \in DOMAIN ops : StatusOf(i) = InFlight /\ now - ops[i].updated_at_ms >= timeout}

\* C14: requeue_inflight_older_than(now, timeout) turns exactly the InFlight ops
\* with now - updated_at_ms >= timeout into Failed ops with attempt + 1,
\* next_retry_at_ms = now, updated_at_ms = now, the requeue error text and no
\* owner; it leaves every other op and owner entry as it was; it returns the
\* number of ops it changed.
C14_SweepChangesExactlyTimedOut ==
    [][\A now \in Times, timeout \in RequeueTimeouts :
          Requeue(now, timeout)
              => /\ DOMAIN ops' = DOMAIN ops
                 /\ \A i \in DOMAIN ops :
                        IF i \in TimedOut(now, timeout)
                        THEN /\ ops'[i] = [ops[i] EXCEPT !.status = Failed,
                                                         !.attempt = ops[i].attempt + 1,
                                                         !.next_retry_at_ms = now,
                                                         !.updated_at_ms = now,
                                                         !.last_error = RequeueError]
                             /\ i \notin DOMAIN owner'
                        ELSE /\ ops'[i] = ops[i]
                             /\ (i \in DOMAIN owner' <=> i \in DOMAIN owner)
                             /\ i \in DOMAIN owner => owner'[i] = owner[i]
                 /\ last'.val = Cardinality(TimedOut(now, timeout))]_vars

\* A sweep at time 1 has just requeued the op: its claim was exactly one
\* timeout old.
C14_RequeuedAtBoundary ==
    /\ last.call = "requeue_inflight_older_than" /\ last.val = 1
    /\ Exists("a") /\ StatusOf("a") = Failed /\ ops["a"].attempt = 1
    /\ ops["a"].updated_at_ms = 1 /\ ops["a"].next_retry_at_ms = 1
    /\ ops["a"].last_error = RequeueError
    /\ "a" \notin DOMAIN owner

\* ---------------------------------------------------------------------------
\* Persistence (checked under Spec)
\* ---------------------------------------------------------------------------
\* C15: after every store mutation has returned, a store opened afresh on the
\* file loads the same op under every id, all fields equal, and the same owner
\* table, as the store that made the mutation holds in memory.
C15_ReopenedStoreSeesSameState == Loaded(disk) = Now

\* A claim has been flushed: the file holds the InFlight op, last updated at
\* time 1, with status code 1 and its owner entry.
C15_ClaimOnDisk ==
    /\ last.call = "claim" /\ last.id = "a" /\ last.val = TRUE
    /\ disk.exists /\ "a" \in DOMAIN disk.ops
    /\ disk.ops["a"].status = 1 /\ disk.ops["a"].updated_at_ms = 1
    /\ "a" \in DOMAIN disk.owners

\* ---------------------------------------------------------------------------
\* Failed flushes (checked under SpecDisk)
\* ---------------------------------------------------------------------------
\* C16: when flush_ fails inside a mutation, the error leaves the call and the
\* store's ops and owner table are what they were before the call, so the
\* memory state is still the one last written to the file.
C16_FailedFlushChangesNothing ==
    [][last'.call = "runtime_error"
          => /\ ops' = ops
             /\ owner' = owner
             /\ (Loaded(disk) = Now => Loaded(disk') = Store(ops', owner'))]_vars

\* ---------------------------------------------------------------------------
\* Properties of the write-ahead log (checked under SpecWal)
\* ---------------------------------------------------------------------------
\* C17: a fresh reader seeked to the offset an append returned delivers from
\* next() one record, equal in every field (type, id, payload, error, ts_ms,
\* next_retry_at_ms) to the record that append was given, empty fields
\* included.
C17_WalRoundTrip ==
    seen.call = "next" =>
        \A k \in 1..Len(log) :
            log[k].offset = seen.from => seen.recs = <<log[k].rec>>

\* The record with the empty id, payload and error was read back from behind
\* another record, and so was the one with a two-byte and a negative number.
C17_EmptyRecordReadBack ==
    /\ seen.call = "next"
    /\ Len(log) = MaxAppends
    /\ seen.from = log[MaxAppends].offset
    /\ seen.from > 0
    /\ seen.recs = <<WalRecord(RecordType.MarkDone, <<>>, <<>>, <<>>, 0, 0)>>
    /\ \E k \in 1..Len(log) : log[k].rec.next_retry_at_ms < 0

\* C18: every append, through the long-lived writer or through Wal::append,
\* returned the byte position where its record begins in the file: the sum
\* of the encoded sizes of the records appended before it, which is where
\* the record's bytes are; so the returned offsets are strictly increasing.
C18_OffsetIsWhereRecordBegins ==
    \A k \in 1..Len(log) :
        /\ log[k].offset = Begin(k)
        /\ SubSeq(wal, log[k].offset + 1, log[k].offset + Len(Encode(log[k].rec)))
               = Encode(log[k].rec)
        /\ k > 1 => log[k].offset > log[k - 1].offset

\* A long-lived writer appended and was closed, and Wal::append then added
\* to the file it left.
C18_BothWritersAppended ==
    /\ Len(log) = MaxAppends
    /\ ~writer.open
    /\ 0 < writer.pos
    /\ writer.pos < Len(wal)
    /\ log[MaxAppends].offset >= writer.pos

\* C19: replay from offset 0 of the file with its last b bytes lost, b less
\* than the size of the last record, delivers the records before the last
\* one, in order and as they were appended, and then returns.
C19_TruncatedTailDropped ==
    (seen.call = "replay" /\ seen.from = 0 /\ seen.cut > 0) =>
        /\ seen.cut < Len(Encode(log[Len(log)].rec))
        /\ seen.recs = [k \in 1..(Len(log) - 1) |-> log[k].rec]

\* Three records, five bytes lost, the first two delivered.
C19_ThreeAppendedTwoReplayed ==
    /\ seen.call = "replay"
    /\ seen.cut = 5
    /\ Len(log) = 3
    /\ Len(seen.recs) = 2
    /\ seen.last = Begin(2)

\* C20: replay from offset 0 of a file whose bad-th record has another magic
\* or version delivers the records before it, nothing of it and nothing
\* behind it, and then returns.
C20_HeaderMismatchStopsReplay ==
    (seen.call = "replay" /\ seen.bad > 0) =>
        seen.recs = [k \in 1..(seen.bad - 1) |-> log[k].rec]

\* The second of three records has another version: the first one was
\* delivered, the well-formed third one was not.
C20_WellFormedRecordBehindSkipped ==
    /\ seen.call = "replay"
    /\ seen.bad = 2
    /\ seen.field = "version"
    /\ Len(log) = 3
    /\ seen.recs = <<log[1].rec>>
    /\ reader_next(wal, Begin(3)).ok

\* The index of the first appended record that begins at or after off, and
\* one more than the number of records when there is none.
FirstAtOrAfter(off) ==
    IF \E k \in 1..Len(log) : Begin(k) >= off
    THEN CHOOSE k \in 1..Len(log) :
             Begin(k) >= off /\ \A j \in 1..(k - 1) : Begin(j) < off
    ELSE Len(log) + 1

\* C21: replay of the intact file from any byte offset, one inside a record
\* included, delivers every record that begins at or after that offset, in
\* order.
C21_ReplayFromAnyOffset ==
    (seen.call = "replay" /\ seen.cut = 0 /\ seen.bad = 0) =>
        seen.recs = [j \in 1..(Len(log) - FirstAtOrAfter(seen.from) + 1) |->
                        log[FirstAtOrAfter(seen.from) + j - 1].rec]

\* ---------------------------------------------------------------------------
\* Properties of SyncEngine (checked under SpecEngine)
\* ---------------------------------------------------------------------------
\* C22: for any sequence of start() and stop() calls, there is never more
\* than one background loop and thread_ is never overwritten while joinable;
\* running() is true exactly when the latest of the calls was start(); once
\* stop() has returned the loop has been joined, so no loop is left to tick;
\* and whenever the engine is running, after a restart too, a loop runs.
C22_StartStopIdempotent ==
    /\ eng.live <= 1
    /\ eng.thread # "terminate"
    /\ eng.running <=> eng.asked = "start"
    /\ (eng.caller = "ready" /\ ~eng.running) => (eng.live = 0 /\ eng.thread = "none")
    /\ eng.running => (eng.live = 1 /\ eng.thread = "loop")
    /\ (last.call = "start" /\ ~last.val) => eng.loops >= 1

\* The engine was started, stopped and started again, and the second loop
\* has ticked.
C22_SecondLoopTicks ==
    /\ eng.loops = 2
    /\ eng.running
    /\ last.call = "tick"
    /\ last.id = "loop"

\* ---------------------------------------------------------------------------
\* Properties of enqueue (checked under SpecEnqueue)
\* ---------------------------------------------------------------------------
\* C23: enqueue(op, now) returns the id under which get finds the op, with
\* created_at_ms = now if it was 0 and kept otherwise, updated_at_ms = now,
\* next_retry_at_ms = now if it was 0 and kept otherwise, and the other fields
\* as given; an op enqueued with default fields is Pending with attempt 0, has
\* not been sent, and is in every peek_ready(now) whose limit covers the store.
C23_EnqueueStampsAndIsReady ==
    [][\A op \in EnqueueOps, now \in Times, newId \in Ids :
          Enqueue(op, now, newId, "k") =>
              LET id == IF op.id = "" THEN newId ELSE op.id
                  got == get(Store(ops', owner'), id)
              IN  /\ last'.val = id
                  /\ got # <<>>
                  /\ got[1].id = id
                  /\ got[1].created_at_ms
                         = (IF op.created_at_ms = 0 THEN now ELSE op.created_at_ms)
                  /\ got[1].updated_at_ms = now
                  /\ got[1].next_retry_at_ms
                         = (IF op.next_retry_at_ms = 0 THEN now ELSE op.next_retry_at_ms)
                  /\ got[1].kind = op.kind
                  /\ got[1].target = op.target
                  /\ got[1].payload = op.payload
                  /\ got[1].status = op.status
                  /\ got[1].attempt = op.attempt
                  /\ got[1].last_error = op.last_error
                  /\ op = DefaultOp("") =>
                         /\ got[1].status = Pending
                         /\ got[1].attempt = 0
                         /\ sends'[id] = 0
                         /\ \A batch \in peek_ready(Store(ops', owner'), now,
                                                    Cardinality(DOMAIN ops')) :
                                \E k \in 1..Len(batch) : batch[k] = got[1]]_vars

\* An op with created_at_ms 1 and next_retry_at_ms 0 was enqueued at 2 under a
\* generated id, next to another op: created_at_ms kept, the others stamped.
C23_EnqueuedNextToAnother ==
    /\ last.call = "enqueue"
    /\ last.id = "b"
    /\ DOMAIN ops = {"a", "b"}
    /\ ops["b"].created_at_ms = 1
    /\ ops["b"].updated_at_ms = 2
    /\ ops["b"].next_retry_at_ms = 2
    /\ ops["a"].next_retry_at_ms > ops["a"].updated_at_ms

\* ---------------------------------------------------------------------------
\* Properties of single calls on any store (checked under SpecStore)
\* ---------------------------------------------------------------------------
\* C24: after put(op), get(op.id) returns an operation equal to op in every
\* field, whether or not the id existed before, and every op under another
\* id is as it was.
C24_PutThenGet ==
    [][\A op \in PutOps(Ids) :
          Put(op) =>
              /\ get(Store(ops', owner'), op.id) = <<op>>
              /\ DOMAIN ops' = DOMAIN ops \cup {op.id}
              /\ \A j \in DOMAIN ops \ {op.id} : ops'[j] = ops[j]]_vars

\* put replaced an op that a worker had in flight (its owner entry is still
\* there) while another op sits next to it.
C24_PutReplacedAnOp ==
    /\ last.call = "put"
    /\ last.id = "a"
    /\ DOMAIN ops = {"a", "b"}
    /\ "a" \in DOMAIN owner
    /\ ops["a"].status = Done
    /\ ops["a"].attempt = 1

\* ---------------------------------------------------------------------------
\* Further properties of the store API (checked under Spec)
\* ---------------------------------------------------------------------------
\* C25: mark_done on an existing id returns true, and called again right
\* after it returns true again and leaves the op Done with an empty
\* last_error and no owner: with the same now nothing changes at all, with
\* another now only updated_at_ms does.
C25_MarkDoneIdempotent ==
    [][\A i \in StoreIds, now \in Times :
          MarkDone(i, now) =>
              /\ i \in DOMAIN ops => last'.val
              /\ (last.call = "mark_done" /\ last.id = i /\ last.val) =>
                     /\ last'.val
                     /\ ops'[i].status = Done
                     /\ ops'[i].last_error = ""
                     /\ i \notin DOMAIN owner'
                     /\ ops' = [ops EXCEPT ![i].updated_at_ms = now]
                     /\ owner' = owner
                     /\ ops[i].updated_at_ms = now => ops' = ops]_vars

\* mark_done has returned true for "a" at the latest time: the state between
\* the two calls.
C25_MarkedDoneOnce ==
    /\ last.call = "mark_done"
    /\ last.id = "a"
    /\ last.val
    /\ ops["a"].status = Done
    /\ ops["a"].updated_at_ms = MaxTime
    /\ ops["a"].attempt > 0

\* The store mutations that return a boolean.
BoolCalls == {"claim", "mark_done", "mark_failed", "mark_permanent_failed"}

\* The step is a call of one of them that returned false.
ReturnedFalse == last'.call \in BoolCalls /\ last'.val = FALSE

\* C26 as stated: claim, mark_done, mark_failed and mark_permanent_failed
\* return false only when no op with the id exists, and then change no op and
\* no owner entry.
C26_FalseOnlyWhenMissing ==
    [][ReturnedFalse =>
          /\ last'.id \notin DOMAIN ops
          /\ ops' = ops /\ owner' = owner]_vars

\* C26, amended: the mark_* calls return false only when no op with the id
\* exists; claim returns false also when the op exists and is Done or
\* InFlight; a call that returns false changes no op and no owner entry.
C26_FalseWhenMissingOrNotClaimable ==
    [][ReturnedFalse =>
          /\ \/ last'.id \notin DOMAIN ops
             \/ /\ last'.call = "claim"
                /\ ops[last'.id].status \in {Done, InFlight}
          /\ ops' = ops /\ owner' = owner]_vars

\* claim has returned false for an op that exists and is in flight under an
\* owner.
C26_ClaimRefusedInFlight ==
    /\ last.call = "claim" /\ last.val = FALSE
    /\ last.id \in DOMAIN ops
    /\ ops[last.id].status = InFlight
    /\ last.id \in DOMAIN owner

\* C27: prune_done(T) removes exactly the ops that are Done with
\* updated_at_ms <= T, returns how many it removed and leaves every other op
\* as it was; no other call (a tick, claim, fail, mark_done, mark_failed,
\* mark_permanent_failed, requeue_inflight_older_than, put) removes an op.
C27_OnlyPruneDoneRemoves ==
    [][/\ \A t \in Times :
             PruneDone(t) =>
                LET old == {i \in DOMAIN ops : ops[i].status = Done /\ ops[i].updated_at_ms <= t}
                IN  /\ DOMAIN ops' = (DOMAIN ops) \ old
                    /\ \A i \in DOMAIN ops' : ops'[i] = ops[i]
                    /\ last'.val = Cardinality(old)
       /\ last'.call # "prune_done" => (DOMAIN ops) \subseteq (DOMAIN ops')]_vars

\* prune_done has removed the Done op "a" and kept the Done op "b", which was
\* updated later than T.
C27_PrunedOneOfTwoDone ==
    /\ last.call = "prune_done" /\ last.val = 1
    /\ DOMAIN ops = {"b"}
    /\ ops["b"].status = Done
    /\ ops["b"].updated_at_ms = MaxTime

\* The fields of an op that say what is to be sent.
Identity(op) ==
    <<op.id, op.kind, op.target, op.payload, op.idempotency_key, op.created_at_ms>>

\* The calls the claim C28 is about (complete is mark_done, the sweep is
\* requeue_inflight_older_than, alone or inside a tick).
KeepingCalls ==
    {"claim", "mark_done", "mark_failed", "mark_permanent_failed", "fail",
     "requeue_inflight_older_than", "tick"}

\* C28: claim, complete, fail, mark_done, mark_failed, mark_permanent_failed
\* and the sweep leave the id, kind, target, payload, idempotency_key and
\* created_at_ms of every op as they were, and the ops of the batch a tick
\* hands to the transport carry those fields of the stored ops.
C28_IdentityFieldsKept ==
    [][/\ last'.call \in KeepingCalls =>
             \A i \in DOMAIN ops :
                 i \in DOMAIN ops' /\ Identity(ops'[i]) = Identity(ops[i])
       /\ last'.call = "tick" =>
             \A cfg \in WorkerConfigs, now \in Times :
                 \A batch \in Batches(cfg, now, TRUE) :
                     \A k \in 1..Len(batch) :
                         Identity(batch[k]) = Identity(ops[batch[k].id])]_vars

\* A tick has sent again an op that had been attempted before, and the send
\* failed again: the op is Failed with both attempts counted and its key.
C28_ResentWithSameKey ==
    /\ last.call = "tick"
    /\ sends["a"] = 1
    /\ ops["a"].status = Failed
    /\ ops["a"].attempt = 2
    /\ ops["a"].idempotency_key = "k"

\* C29: a tick of a worker without a transport leaves every op of its batch
\* (it claims each of them) Failed, never Done or PermanentFailed, with
\* last_error "No transport configured", updated at now and without an owner;
\* it calls no transport and returns the number of those ops.
C29_NoTransportIsRetryableFailure ==
    [][\A cfg \in WorkerConfigs, now \in Times :
          \A batch \in Batches(cfg, now, TRUE) :
              Tick("w1", cfg, now, TRUE, FALSE, <<>>, batch) =>
                  /\ last'.val = Len(batch)
                  /\ sends' = sends
                  /\ \A k \in 1..Len(batch) :
                        LET i == batch[k].id
                        IN  /\ ops[i].status \in {Pending, Failed, InFlight}
                            /\ ops'[i].status = Failed
                            /\ ops'[i].last_error = "No transport configured"
                            /\ ops'[i].updated_at_ms = now
                            /\ ops'[i].next_retry_at_ms >= now
                            /\ i \notin DOMAIN owner']_vars

\* A tick without a transport has claimed two ops and returned 2: both are
\* Failed with the error text, nothing was sent, nobody owns them.
C29_TwoOpsFailedWithoutTransport ==
    /\ last.call = "tick" /\ last.val = 2
    /\ \A i \in Ids :
          /\ i \in DOMAIN ops
          /\ ops[i].status = Failed
          /\ ops[i].last_error = "No transport configured"
          /\ sends[i] = 0
    /\ owner = <<>>

RECURSIVE SumOf(_)
SumOf(q) == IF q = <<>> THEN 0 ELSE q[1] + SumOf(Tail(q))

\* C30: the tick of a worker thread returns the number of its claims that
\* returned true in that tick, which is the number of transport.send calls it
\* made; the ops of its batch whose claim returned false are the rest of the
\* batch and add nothing. SyncEngine::tick returns the sum of the results of
\* its workers' ticks, one per worker, and that sum is the number of
\* transport.send calls of the engine's tick, or there were none (no
\* transport).
C30_TickCountsClaimedOps ==
    [][/\ \A w \in Workers :
             (wk[w].pc # "idle" /\ wk'[w].pc = "idle") =>
                 /\ last' = Call("tick", "", wk'[w].wins)
                 /\ wk'[w].calls = wk'[w].wins
                 /\ wk'[w].wins + wk'[w].lost = Len(wk[w].batch)
       /\ (last'.call = "tick" /\ last'.id = "caller") =>
             /\ Len(last'.val.rets) = EngineConfig.worker_count
             /\ last'.val.total = SumOf(last'.val.rets)
             /\ SumOf([k \in 1..2 |-> last'.val.calls[<<"a", "b">>[k]]])
                    \in {0, last'.val.total}]_vars

\* One thread's tick returned 0 because its claim was refused, the other
\* thread's tick sent the op and returned 1, and the engine's tick after them
\* returned 2, one from each of its workers.
C30_RefusedClaimAndEngineSum ==
    /\ \E w \in Workers : wk[w].pc = "idle" /\ wk[w].lost = 1 /\ wk[w].wins = 0
    /\ \E w \in Workers : wk[w].pc = "idle" /\ wk[w].wins = 1 /\ wk[w].calls = 1
    /\ last.call = "tick" /\ last.id = "caller"
    /\ last.val.rets = <<1, 1>>
    /\ last.val.total = 2

\* ---------------------------------------------------------------------------
\* Properties of the retry schedule (checked under SpecRetry)
\* ---------------------------------------------------------------------------
\* C31: after the k-th retryable send failure in a row of an op, at time now
\* (1 <= k < max_attempts, no sweep in between), the op is Failed with
\* next_retry_at_ms = now + compute_delay_ms(k): the delay grows with each
\* failure up to max_delay_ms.
C31_DelayGrowsWithFailures ==
    \A i \in DOMAIN ops :
        (/\ ops[i].status = Failed
         /\ sends[i] >= 1
         /\ sends[i] < BackoffPolicy.max_attempts)
            => ops[i].next_retry_at_ms
                   = ops[i].updated_at_ms + compute_delay_ms(BackoffPolicy, sends[i])

Steps(w) == wk'[w] # wk[w]

\* The claim under which w sends is gone: the op was swept out of InFlight and
\* is not InFlight now, or is InFlight again under a later claim of another
\* thread.
Obsolete(w) ==
    /\ wk[w].pc \in {"sending", "fail"}
    /\ CurOp(w) \in DOMAIN ops
    /\ \/ ops[CurOp(w)].status # InFlight
       \/ \E v \in Workers \ {w} :
             /\ wk[v].pc \in {"send", "sending", "fail"}
             /\ CurOp(v) = CurOp(w)
             /\ wk[v].now > wk[w].now

\* C33: the complete or fail a thread issues when its send returns after its
\* claim is gone (the op was swept, and perhaps claimed again or finished by
\* another thread) changes no op and no owner entry.
C33_LateResultChangesNothing ==
    [][\A w \in Workers :
          (Obsolete(w) /\ Steps(w)) => (ops' = ops /\ owner' = owner)]_vars

\* ---------------------------------------------------------------------------
\* The batch limit (checked under SpecBatch)
\* ---------------------------------------------------------------------------
\* C34: list, and so peek_ready(now, limit) and the batch of a tick, never
\* holds more than limit ops, for every limit, 0 included: a tick with
\* batch_limit l works on at most l ops and returns at most l.
C34_BatchWithinLimit ==
    [][\A cfg \in WorkerConfigs, now \in Times, online \in BOOLEAN, hasTransport \in BOOLEAN :
          \A batch \in Batches(cfg, now, online) :
              \A res \in Answers(batch, hasTransport) :
                  Tick("w1", cfg, now, online, hasTransport, res, batch) =>
                      /\ Len(batch) <= cfg.batch_limit
                      /\ last'.val <= cfg.batch_limit]_vars

\* ---------------------------------------------------------------------------
\* claim and mark_failed (checked under SpecClaim)
\* ---------------------------------------------------------------------------
\* C35: claim(id, owner, now) on an existing Pending or Failed op returns
\* true and changes only that op's status (InFlight) and updated_at_ms (now)
\* and its owner entry (owner); a claim that returns false changes no op and
\* no owner entry; a claim that follows mark_failed(id, err, t, next) with
\* now >= next returns true and records its owner.
C35_ClaimFrameAndReclaim ==
    [][\A i \in Ids, w \in Owners, now \in Times :
          Claim(i, w, now) =>
              /\ (i \in DOMAIN ops /\ ops[i].status \in {Pending, Failed}) =>
                     /\ last'.val
                     /\ ops' = [ops EXCEPT ![i].status = InFlight, ![i].updated_at_ms = now]
                     /\ DOMAIN owner' = DOMAIN owner \cup {i}
                     /\ owner'[i] = w
                     /\ \A j \in DOMAIN owner \ {i} : owner'[j] = owner[j]
              /\ ~last'.val => (ops' = ops /\ owner' = owner)
              /\ (last = Call("mark_failed", i, TRUE) /\ now >= ops[i].next_retry_at_ms) =>
                     (last'.val /\ owner'[i] = w /\ ops'[i].status = InFlight)]_vars

\* The op "a" was claimed by w1, marked failed with the error and a retry
\* time, and claimed again at that time by w2, while w1 holds the op "b".
C35_ReclaimedByOtherOwner ==
    /\ last = Call("claim", "a", TRUE)
    /\ DOMAIN ops = Ids
    /\ ops["a"].status = InFlight
    /\ ops["a"].last_error = "e"
    /\ ops["a"].next_retry_at_ms = MaxTime
    /\ ops["a"].updated_at_ms = MaxTime
    /\ owner["a"] = "w2"
    /\ ops["b"].status = InFlight
    /\ owner["b"] = "w1"

\* ---------------------------------------------------------------------------
\* compute_delay_ms (checked under SpecDelay)
\* ---------------------------------------------------------------------------
\* clamp(base_delay_ms * factor^attempt, base_delay_ms, max_delay_ms) over the
\* integers: from attempt 21 on the product is above 2^20 * base_delay_ms and
\* so above max_delay_ms.
ClampedProduct(p, attempt) ==
    IF attempt <= 20
    THEN Clamp(p.base_delay_ms * Pow(p.factor, attempt), p.base_delay_ms, p.max_delay_ms)
    ELSE p.max_delay_ms

\* C36: compute_delay_ms(attempt) is clamp(base_delay_ms * factor^attempt,
\* base_delay_ms, max_delay_ms) for every attempt: it lies in [base_delay_ms,
\* max_delay_ms] and stays at max_delay_ms once the product exceeds it, also
\* when the product exceeds the signed 64-bit range.
C36_DelayIsClampedProduct ==
    last.call = "compute_delay_ms" =>
        /\ last.val.delay >= last.val.policy.base_delay_ms
        /\ last.val.delay <= last.val.policy.max_delay_ms
        /\ last.val.delay = ClampedProduct(last.val.policy, last.val.attempt)

\* ---------------------------------------------------------------------------
\* A tick right after a failed send (checked under SpecTick)
\* ---------------------------------------------------------------------------
\* The last call was a tick that sent the op "a" and got a retryable failure.
FailedRetryably ==
    /\ last = Call("tick", "", 1)
    /\ "a" \in DOMAIN ops
    /\ ops["a"].status = Failed
    /\ ops["a"].last_error = "transient"
    /\ sends["a"] >= 1

\* C37: after a tick in which the op's send failed retryably at time t, the
\* next tick, issued before t + base_delay_ms with the probe online and the
\* transport answering ok, processes at least one op, sends the op again
\* (two sends or more in all) and leaves it Done.
C37_ImmediateRetrySucceeds ==
    [][\A cfg \in TickConfigs, now \in Times :
          \A batch \in Batches(cfg, now, TRUE) :
              \A res \in Answers(batch, TRUE) :
                  (/\ FailedRetryably
                   /\ now >= ops["a"].updated_at_ms
                   /\ now < ops["a"].updated_at_ms + retry.base_delay_ms
                   /\ \A i \in DOMAIN res : res[i].ok
                   /\ Tick("w1", cfg, now, TRUE, TRUE, res, batch))
                      => /\ last'.val >= 1
                         /\ sends'["a"] >= 2
                         /\ ops'["a"].status = Done]_vars

\* ---------------------------------------------------------------------------
\* Liveness of a tick loop (checked under SpecLive)
\* ---------------------------------------------------------------------------
\* C38: with ticks that keep occurring, now advancing, the probe online and
\* the transport answering ok for the op "b", the op "b", whether Pending,
\* Failed or InFlight under a crashed owner, is eventually Done: the batch
\* limit does not starve it.
C38_EventuallyDone ==
    [](("b" \in DOMAIN ops /\ ops["b"].status \in {Pending, Failed, InFlight})
          => <>("b" \in DOMAIN ops /\ ops["b"].status = Done))

\* ---------------------------------------------------------------------------
\* Wal::replay: what it delivers and returns (checked under SpecWal)
\* ---------------------------------------------------------------------------
\* The index of the last appended record that is complete in the file the
\* replay read: a file that lost bytes lost part of its last record.
LastComplete == IF seen.cut > 0 THEN Len(log) - 1 ELSE Len(log)

\* C39: replay(from_offset, cb), on a file whose headers are intact, delivers
\* each complete record located at or after from_offset exactly once, in the
\* order of the appends, and returns the offset where the last record
\* delivered begins, or -1 when it delivered none.
C39_ReplayDeliversEachOnceInOrder ==
    (seen.call = "replay" /\ seen.bad = 0) =>
        LET first == FirstAtOrAfter(seen.from)
            n == LastComplete - first + 1
        IN  /\ seen.recs = [j \in 1..n |-> log[first + j - 1].rec]
            /\ seen.last = IF n >= 1 THEN Begin(LastComplete) ELSE -1

====
